---- MODULE Spec2Model ----
(***************************************************************************)
(* Azure DevOps MCP adapter: configuration resolution (config.ts),         *)
(* the logger, the connection factory (AzureDevOpsService constructor)     *)
(* and the pull-request operations of GitService.                          *)
(*                                                                         *)
(* Representation of JavaScript values:                                    *)
(*   - a value that may be undefined is a sequence of length 0 or 1:       *)
(*     <<>> is undefined, <<v>> is the value v;                            *)
(*   - the URL-like strings (orgUrl, collection, baseUrl), on which the    *)
(*     code runs a regular expression or a concatenation, are sequences    *)
(*     of one-character strings; the empty string is <<>>;                 *)
(*   - every other string is a TLA+ string; the empty string is "";        *)
(*   - an Error message built from a template is the sequence of the       *)
(*     fragments that the template concatenates.                           *)
(***************************************************************************)
EXTENDS Naturals, Sequences, FiniteSets, TLC

\* Number of GitService invocations that can be in flight together
NumInvocations == 2

VARIABLES
    env,        \* process.env, the variables this program reads
    caller,     \* "server": config from getAzureDevOpsConfig; "library": config built by the caller
    pc,         \* position of the start-up sequence
    resolved,   \* outcome of getAzureDevOpsConfig
    svc,        \* the AzureDevOpsService instance under construction
    thrown,     \* the Error the constructor threw, <<>> if none
    console,    \* lines written to the console
    inv,        \* the invocations of service methods, by slot
    allowedTools, \* the Set that getAllowedTools returned, <<>> before the call
    webApiCalls,  \* the calls of new azdev.WebApi made so far
    appends,      \* the fs.appendFileSync calls made so far, failed ones included
    logger,       \* Logger.instance, <<>> before the first getInstance
    files,        \* the content of the files under logs/, by file name
    clock         \* the UTC date, as a day number

\* What the logger and getAllowedTools own
procVars == <<allowedTools, logger, files, clock>>
startVars ==
    <<env, caller, pc, resolved, svc, thrown, console,
      webApiCalls, appends, procVars>>
vars ==
    <<env, caller, pc, resolved, svc, thrown, console, inv,
      allowedTools, webApiCalls, appends, logger, files, clock>>

\* The entries of the file of that name, none when it does not exist
ContentOf(name) == IF name \in DOMAIN files THEN files[name] ELSE <<>>

\* The files after the file of that name has got that content
Written(fs, name, content) ==
    [n \in DOMAIN fs \cup {name} |-> IF n = name THEN content ELSE fs[n]]

\* The entries appended to Logger.currentLogFile
logFile == IF logger = <<>> THEN <<>> ELSE ContentOf(logger[1].currentLogFile)

-----------------------------------------------------------------------------
(* JavaScript helpers *)

undefined == <<>>

\* !!x for an optional TLA+ string
Truthy(o) == o # <<>> /\ o[1] # ""

\* !!x for an optional character string
TruthyChars(o) == o # <<>> /\ o[1] # <<>>

\* Array.prototype.join, as the sequence of fragments of the joined string
RECURSIVE join(_, _)
join(arr, sep) ==
    IF Len(arr) = 0 THEN <<>>
    ELSE IF Len(arr) = 1 THEN <<arr[1]>>
    ELSE <<arr[1], sep>> \o join(Tail(arr), sep)

\* A console line: console.error / warn / info / debug / log of text
\* arguments, or of one formatted log entry
ConsoleLine(stream, args) == [stream |-> stream, args |-> args, entry |-> <<>>]
ConsoleEntry(stream, formatted) == [stream |-> stream, args |-> <<>>, entry |-> <<formatted>>]

-----------------------------------------------------------------------------
(* Character strings used by the model *)

Scheme == <<"h","t","t","p","s",":","/","/">>
HostAdo == <<"a","d","o",".","e","x","a","m","p","l","e",".","c","o","m">>
HostTfs == <<"t","f","s",":","8","0">>
PathOrg == <<"/","o","r","g">>
Url(host, path) == Scheme \o host \o path
UrlAdo == Url(HostAdo, <<>>)
DefaultCollection == <<"D","e","f","a","u","l","t","C","o","l","l","e","c","t","i","o","n">>

-----------------------------------------------------------------------------
(* config.ts: getAzureDevOpsConfig *)

\* Mutant of missingVars: the project is not looked at
missingVars_orgOnly(e) ==
    IF ~TruthyChars(e.AZURE_DEVOPS_ORG_URL) THEN <<"AZURE_DEVOPS_ORG_URL">> ELSE <<>>

\* Mutant of missingVars: the second check is an else-branch of the first
missingVars_elseIf(e) ==
    IF ~TruthyChars(e.AZURE_DEVOPS_ORG_URL) THEN <<"AZURE_DEVOPS_ORG_URL">>
    ELSE IF ~Truthy(e.AZURE_DEVOPS_PROJECT) THEN <<"AZURE_DEVOPS_PROJECT">>
    ELSE <<>>

\* config.ts:128-130
missingVars(e) ==
    (IF ~TruthyChars(e.AZURE_DEVOPS_ORG_URL) THEN <<"AZURE_DEVOPS_ORG_URL">> ELSE <<>>)
    \o (IF ~Truthy(e.AZURE_DEVOPS_PROJECT) THEN <<"AZURE_DEVOPS_PROJECT">> ELSE <<>>)

\* config.ts:141
authTypeInput(e) ==
    IF Truthy(e.AZURE_DEVOPS_AUTH_TYPE) THEN e.AZURE_DEVOPS_AUTH_TYPE[1] ELSE "pat"

\* Mutant of authType: the input is used without the fallback to 'pat'
authType_noFallback(e) == authTypeInput(e)

\* config.ts:142-144
authType(e) ==
    IF authTypeInput(e) = "ntlm" \/ authTypeInput(e) = "basic"
       \/ authTypeInput(e) = "pat" \/ authTypeInput(e) = "entra"
    THEN authTypeInput(e)
    ELSE "pat"

\* config.ts:121: process.env.AZURE_DEVOPS_PERSONAL_ACCESS_TOKEN || ''
personalAccessToken(e) ==
    IF Truthy(e.AZURE_DEVOPS_PERSONAL_ACCESS_TOKEN)
    THEN e.AZURE_DEVOPS_PERSONAL_ACCESS_TOKEN[1] ELSE ""

\* config.ts:122
isOnPremises(e) == e.AZURE_DEVOPS_IS_ON_PREMISES = <<"true">>

\* The Error messages of config.ts
MsgMissingRequired(e) ==
    <<"Missing required Azure DevOps configuration: ">>
    \o join(missingVars(e), ", ")
    \o <<". Please check .env file or environment variables.">>
MsgEntraOnPrem ==
    <<"Azure Identity (DefaultAzureCredential) authentication is not supported for on-premises Azure DevOps.">>
MsgNtlmCreds == <<"NTLM authentication requires username and password.">>
MsgBasicCreds == <<"Basic authentication requires username and password.">>
MsgPatOnPrem == <<"PAT authentication requires a personal access token.">>
MsgPatCloud ==
    <<"PAT authentication requires a personal access token for Azure DevOps cloud unless AZURE_DEVOPS_AUTH_TYPE is set to entra.">>
MsgUnsupportedCloud(t) ==
    <<"Unsupported auth type \"", t, "\" for Azure DevOps cloud. Must be 'pat' or 'entra'.">>

\* An auth descriptor; the fields a variant does not carry are undefined.
Auth(t, u, p, d) == [type |-> t, username |-> u, password |-> p, domain |-> d]

\* Mutant of authError: NTLM and Basic fail only when both the username and
\* the password are missing
authError_bothMissing(e) ==
    IF authType(e) = "entra" THEN
        IF isOnPremises(e) THEN MsgEntraOnPrem ELSE <<>>
    ELSE IF isOnPremises(e) THEN
        IF authType(e) = "ntlm" THEN
            IF ~Truthy(e.AZURE_DEVOPS_USERNAME) /\ ~Truthy(e.AZURE_DEVOPS_PASSWORD)
            THEN MsgNtlmCreds ELSE <<>>
        ELSE IF authType(e) = "basic" THEN
            IF ~Truthy(e.AZURE_DEVOPS_USERNAME) /\ ~Truthy(e.AZURE_DEVOPS_PASSWORD)
            THEN MsgBasicCreds ELSE <<>>
        ELSE
            IF personalAccessToken(e) = "" THEN MsgPatOnPrem ELSE <<>>
    ELSE
        IF authType(e) = "pat" THEN
            IF personalAccessToken(e) = "" THEN MsgPatCloud ELSE <<>>
        ELSE MsgUnsupportedCloud(authType(e))

\* config.ts:146-194: the Error thrown by the decision table, <<>> if none
authError(e) ==
    IF authType(e) = "entra" THEN
        IF isOnPremises(e) THEN MsgEntraOnPrem ELSE <<>>
    ELSE IF isOnPremises(e) THEN
        IF authType(e) = "ntlm" THEN
            IF ~Truthy(e.AZURE_DEVOPS_USERNAME) \/ ~Truthy(e.AZURE_DEVOPS_PASSWORD)
            THEN MsgNtlmCreds ELSE <<>>
        ELSE IF authType(e) = "basic" THEN
            IF ~Truthy(e.AZURE_DEVOPS_USERNAME) \/ ~Truthy(e.AZURE_DEVOPS_PASSWORD)
            THEN MsgBasicCreds ELSE <<>>
        ELSE
            IF personalAccessToken(e) = "" THEN MsgPatOnPrem ELSE <<>>
    ELSE
        IF authType(e) = "pat" THEN
            IF personalAccessToken(e) = "" THEN MsgPatCloud ELSE <<>>
        ELSE MsgUnsupportedCloud(authType(e))

\* config.ts:146-194: the descriptor built when the decision table does not throw
authDescriptor(e) ==
    IF authType(e) = "entra" THEN Auth("entra", undefined, undefined, undefined)
    ELSE IF isOnPremises(e) /\ authType(e) = "ntlm" THEN
        Auth("ntlm", e.AZURE_DEVOPS_USERNAME, e.AZURE_DEVOPS_PASSWORD, e.AZURE_DEVOPS_DOMAIN)
    ELSE IF isOnPremises(e) /\ authType(e) = "basic" THEN
        Auth("basic", e.AZURE_DEVOPS_USERNAME, e.AZURE_DEVOPS_PASSWORD, undefined)
    ELSE Auth("pat", undefined, undefined, undefined)

\* config.ts:196-204
resolvedConfig(e) ==
    [orgUrl |-> e.AZURE_DEVOPS_ORG_URL,
     project |-> e.AZURE_DEVOPS_PROJECT,
     personalAccessToken |-> <<personalAccessToken(e)>>,
     isOnPremises |-> isOnPremises(e),
     collection |-> e.AZURE_DEVOPS_COLLECTION,
     apiVersion |-> e.AZURE_DEVOPS_API_VERSION,
     auth |-> <<authDescriptor(e)>>,
     entraAuthHandler |-> undefined]

\* config.ts:132-135: the console.error lines of the basic validation
missingConsole(e) ==
    << ConsoleLine("error", <<"Environment variables check:">>),
       ConsoleLine("error", <<"AZURE_DEVOPS_ORG_URL:",
         IF TruthyChars(e.AZURE_DEVOPS_ORG_URL) THEN "SET" ELSE "NOT SET">>),
       ConsoleLine("error", <<"AZURE_DEVOPS_PROJECT:",
         IF Truthy(e.AZURE_DEVOPS_PROJECT) THEN "SET" ELSE "NOT SET">>),
       ConsoleLine("error", <<"Missing variables:">> \o join(missingVars(e), ", ")) >>

\* new Error(message)
Error(msg) == [message |-> msg, code |-> undefined, type |-> "Error"]

\* config.ts:118-205: one call on environment e: the Error thrown (or undefined),
\* the configuration returned (or undefined) and the console lines written
getAzureDevOpsConfig(e) ==
    IF missingVars(e) # <<>> THEN
        [error |-> <<Error(MsgMissingRequired(e))>>, value |-> undefined,
         console |-> missingConsole(e)]
    ELSE IF authError(e) # <<>> THEN
        [error |-> <<Error(authError(e))>>, value |-> undefined, console |-> <<>>]
    ELSE
        [error |-> undefined, value |-> <<resolvedConfig(e)>>, console |-> <<>>]

-----------------------------------------------------------------------------
(* utils/logger.ts: Logger *)

\* logger.ts:28
isMcpMode(e) == e.MCP_MODE = <<"true">>

\* A LogEntry (logger.ts:11-18, 93-100); the timestamp is left out
LogEntry(level, component, message, context, error) ==
    [level |-> level, component |-> component, message |-> message,
     context |-> context, error |-> error]

\* logger.ts:62-79: the parts of the formatted text, in order: the base line,
\* the JSON of the context when there is one, the message of the error when
\* there is one
formatLogEntry(entry) ==
    [base |-> <<entry.level, entry.component, entry.message>>,
     context |-> entry.context,
     error |-> IF entry.error = <<>> THEN <<>> ELSE <<entry.error[1].message>>]

\* The console method that Logger.log uses for a level (logger.ts:109-122)
consoleMethod(level) ==
    CASE level = "ERROR" -> "error"
      [] level = "WARN" -> "warn"
      [] level = "INFO" -> "info"
      [] OTHER -> "debug"

\* Mutant of writeToFile: the file is written anew (fs.writeFileSync)
writeToFile_overwrite(file, text, ok) == IF ok THEN <<text>> ELSE file

\* logger.ts:81-90: the log file after writeToFile
writeToFile(file, text, ok) == IF ok THEN Append(file, text) ELSE file

\* logger.ts:84-88 and 107-123: the console after one Logger.log call
logConsole(con, entry, mcp, ok) ==
    IF mcp THEN con
    ELSE (IF ok THEN con
          ELSE Append(con, ConsoleLine("error", <<"Failed to write to log file:">>)))
         \o <<ConsoleEntry(consoleMethod(entry.level), formatLogEntry(entry))>>

\* logger.ts:92-124: Logger.log of each entry of a sequence, in order, on the
\* pair [file, console]
RECURSIVE log(_, _, _, _)
log(out, entries, mcp, ok) ==
    IF entries = <<>> THEN out
    ELSE log([file |-> writeToFile(out.file, formatLogEntry(Head(entries)), ok),
              console |-> logConsole(out.console, Head(entries), mcp, ok)],
             Tail(entries), mcp, ok)

\* String.prototype.replace(/\/\/[^\/]+/, '//***') on a character string: the
\* leftmost "//" followed by at least one character other than "/", together
\* with the longest run of such characters, becomes "//***"
maskStart(s) ==
    LET hits == {i \in 1..Len(s) : /\ i + 2 <= Len(s)
                                   /\ s[i] = "/" /\ s[i+1] = "/" /\ s[i+2] # "/"}
    IN IF hits = {} THEN 0 ELSE CHOOSE i \in hits : \A j \in hits : i <= j

maskEnd(s, i) ==
    CHOOSE j \in (i+2)..Len(s) :
        /\ \A k \in (i+2)..j : s[k] # "/"
        /\ (j = Len(s) \/ s[j+1] = "/")

maskHost(s) ==
    LET i == maskStart(s) IN
    IF i = 0 THEN s
    ELSE SubSeq(s, 1, i - 1) \o <<"/","/","*","*","*">> \o SubSeq(s, maskEnd(s, i) + 1, Len(s))

NotProvided == <<"n","o","t"," ","p","r","o","v","i","d","e","d">>
NotSpecifiedChars == <<"n","o","t"," ","s","p","e","c","i","f","i","e","d">>

\* config.auth?.type
authTypeOf(config) == IF config.auth = <<>> THEN undefined ELSE <<config.auth[1].type>>

\* config.auth?.username
authUsernameOf(config) == IF config.auth = <<>> THEN undefined ELSE config.auth[1].username

\* config.auth?.password
authPasswordOf(config) == IF config.auth = <<>> THEN undefined ELSE config.auth[1].password

\* Mutant of sanitizedConfig: the URL is logged without masking its host
sanitizedConfig_rawUrl(config) ==
    [orgUrl |-> IF TruthyChars(config.orgUrl) THEN config.orgUrl[1] ELSE NotProvided,
     authType |-> IF Truthy(authTypeOf(config)) THEN authTypeOf(config)[1] ELSE "not specified",
     isOnPremises |-> config.isOnPremises,
     hasToken |-> Truthy(config.personalAccessToken),
     hasUsername |-> Truthy(authUsernameOf(config)),
     collection |-> IF TruthyChars(config.collection) THEN config.collection[1]
                    ELSE NotSpecifiedChars,
     apiVersion |-> IF Truthy(config.apiVersion) THEN config.apiVersion[1] ELSE "not specified",
     project |-> IF Truthy(config.project) THEN config.project[1] ELSE "not specified"]

\* logger.ts:144-153
sanitizedConfig(config) ==
    [orgUrl |-> IF TruthyChars(config.orgUrl) THEN maskHost(config.orgUrl[1]) ELSE NotProvided,
     authType |-> IF Truthy(authTypeOf(config)) THEN authTypeOf(config)[1] ELSE "not specified",
     isOnPremises |-> config.isOnPremises,
     hasToken |-> Truthy(config.personalAccessToken),
     hasUsername |-> Truthy(authUsernameOf(config)),
     collection |-> IF TruthyChars(config.collection) THEN config.collection[1]
                    ELSE NotSpecifiedChars,
     apiVersion |-> IF Truthy(config.apiVersion) THEN config.apiVersion[1] ELSE "not specified",
     project |-> IF Truthy(config.project) THEN config.project[1] ELSE "not specified"]

\* logger.ts:143-160: the entry that logConnectionFailure logs
logConnectionFailure(component, error, config) ==
    LogEntry("ERROR", component, "Connection failed",
             <<[config |-> sanitizedConfig(config),
                errorCode |-> error.code,
                errorType |-> error.type]>>,
             <<error>>)

-----------------------------------------------------------------------------
(* Services/AzureDevOpsService: the constructor *)

MsgNoEntraHandler == <<"Entra authentication requires an instance of EntraAuthHandler.">>
MsgCtorNtlmCreds == <<"NTLM authentication requires username and password">>
MsgCtorBasicCreds == <<"Basic authentication requires username and password">>
MsgCtorPatOnPrem ==
    <<"PAT authentication requires a personal access token for on-premises if specified or as fallback.">>
MsgCtorPatCloud ==
    <<"Personal Access Token is required for cloud authentication when auth type is PAT or not specified.">>
MsgCtorUnsupported(t) ==
    <<"Unsupported authentication type \"", t, "\" for Azure DevOps cloud.">>

\* A request handler built by the SDK from its arguments, or supplied from outside
Handler(kind, args) == [kind |-> kind, args |-> args]
getPersonalAccessTokenHandler(token) == Handler("pat", <<token>>)
getNtlmHandler(username, password, domain) == Handler("ntlm", <<username, password, domain>>)
getBasicHandler(username, password) == Handler("basic", <<username, password>>)

\* The outcome of the authentication stage of the constructor: the Error
\* thrown (or undefined), the handler assigned to this.authHandler (or
\* undefined) and the entries logged
Stage(error, handler, entries) == [error |-> error, handler |-> handler, log |-> entries]

Failed(msg, logMessage, context) ==
    Stage(<<Error(msg)>>, undefined,
          <<LogEntry("ERROR", "AzureDevOpsService", logMessage, context, <<Error(msg)>>)>>)

Using(handler, logMessage, context) ==
    Stage(undefined, <<handler>>,
          <<LogEntry("INFO", "AzureDevOpsService", logMessage, context, undefined)>>)

\* Mutant of entraStage: the on-premises check is missing
entraStage_noHostingCheck(config) ==
    IF config.entraAuthHandler = <<>> THEN
        Failed(MsgNoEntraHandler, "Missing Entra auth handler", undefined)
    ELSE Using(config.entraAuthHandler[1], "Using Entra authentication", undefined)

\* Mutant of entraStage: a PAT handler is built from the token in place of the
\* supplied handler
entraStage_patHandler(config) ==
    IF config.isOnPremises THEN
        Failed(MsgEntraOnPrem, "Invalid authentication configuration", undefined)
    ELSE IF config.entraAuthHandler = <<>> THEN
        Failed(MsgNoEntraHandler, "Missing Entra auth handler", undefined)
    ELSE Using(getPersonalAccessTokenHandler(config.personalAccessToken),
               "Using Entra authentication", undefined)

\* logger.ts:249-265
entraStage(config) ==
    IF config.isOnPremises THEN
        Failed(MsgEntraOnPrem, "Invalid authentication configuration", undefined)
    ELSE IF config.entraAuthHandler = <<>> THEN
        Failed(MsgNoEntraHandler, "Missing Entra auth handler", undefined)
    ELSE Using(config.entraAuthHandler[1], "Using Entra authentication", undefined)

\* Mutant of onPremisesStage: a personal access token is required for NTLM
\* and Basic as well
onPremisesStage_requiresToken(config) ==
    LET auth == config.auth[1] IN
    IF ~Truthy(config.personalAccessToken) THEN
        Failed(MsgCtorPatOnPrem, "Missing PAT token", undefined)
    ELSE IF auth.type = "ntlm" THEN
        IF ~Truthy(auth.username) \/ ~Truthy(auth.password) THEN
            Failed(MsgCtorNtlmCreds, "Missing NTLM credentials", undefined)
        ELSE Using(getNtlmHandler(auth.username, auth.password, auth.domain),
                   "Using NTLM authentication",
                   <<[username |-> auth.username,
                      domain |-> IF Truthy(auth.domain) THEN auth.domain ELSE <<"default">>]>>)
    ELSE IF auth.type = "basic" THEN
        IF ~Truthy(auth.username) \/ ~Truthy(auth.password) THEN
            Failed(MsgCtorBasicCreds, "Missing Basic auth credentials", undefined)
        ELSE Using(getBasicHandler(auth.username, auth.password),
                   "Using Basic authentication", <<[username |-> auth.username]>>)
    ELSE Using(getPersonalAccessTokenHandler(config.personalAccessToken),
               "Using PAT authentication", undefined)

\* logger.ts:267-313
onPremisesStage(config) ==
    LET auth == config.auth[1] IN
    IF auth.type = "ntlm" THEN
        IF ~Truthy(auth.username) \/ ~Truthy(auth.password) THEN
            Failed(MsgCtorNtlmCreds, "Missing NTLM credentials", undefined)
        ELSE Using(getNtlmHandler(auth.username, auth.password, auth.domain),
                   "Using NTLM authentication",
                   <<[username |-> auth.username,
                      domain |-> IF Truthy(auth.domain) THEN auth.domain ELSE <<"default">>]>>)
    ELSE IF auth.type = "basic" THEN
        IF ~Truthy(auth.username) \/ ~Truthy(auth.password) THEN
            Failed(MsgCtorBasicCreds, "Missing Basic auth credentials", undefined)
        ELSE Using(getBasicHandler(auth.username, auth.password),
                   "Using Basic authentication", <<[username |-> auth.username]>>)
    ELSE
        IF ~Truthy(config.personalAccessToken) THEN
            Failed(MsgCtorPatOnPrem, "Missing PAT token", undefined)
        ELSE Using(getPersonalAccessTokenHandler(config.personalAccessToken),
                   "Using PAT authentication", undefined)

\* Mutant of cloudStage: the PAT handler is built without checking the token
cloudStage_noTokenCheck(config) ==
    IF authTypeOf(config) = <<"pat">> \/ config.auth = <<>> THEN
        Using(getPersonalAccessTokenHandler(config.personalAccessToken),
              "Using PAT authentication for cloud", undefined)
    ELSE Failed(MsgCtorUnsupported(authTypeOf(config)[1]), "Unsupported auth type",
                <<[authType |-> authTypeOf(config)]>>)

\* logger.ts:314-335
cloudStage(config) ==
    IF authTypeOf(config) = <<"pat">> \/ config.auth = <<>> THEN
        IF ~Truthy(config.personalAccessToken) THEN
            Failed(MsgCtorPatCloud, "Missing PAT token for cloud", undefined)
        ELSE Using(getPersonalAccessTokenHandler(config.personalAccessToken),
                   "Using PAT authentication for cloud", undefined)
    ELSE Failed(MsgCtorUnsupported(authTypeOf(config)[1]), "Unsupported auth type",
                <<[authType |-> authTypeOf(config)]>>)

\* Mutant of authBranch: the NTLM/Basic/PAT switch runs whatever the hosting
authBranch_anyHosting(config) ==
    IF authTypeOf(config) = <<"entra">> THEN "entra"
    ELSE IF config.auth # <<>> THEN "onPremises"
    ELSE "cloud"

\* logger.ts:249, 266, 314: which branch of the authentication stage runs
authBranch(config) ==
    IF authTypeOf(config) = <<"entra">> THEN "entra"
    ELSE IF config.isOnPremises /\ config.auth # <<>> THEN "onPremises"
    ELSE "cloud"

\* logger.ts:247-335
authStage(config) ==
    CASE authBranch(config) = "entra" -> entraStage(config)
      [] authBranch(config) = "onPremises" -> onPremisesStage(config)
      [] OTHER -> cloudStage(config)

\* A template literal's rendering of an optional character string
render(o) == IF o = <<>> THEN <<"u","n","d","e","f","i","n","e","d">> ELSE o[1]

\* Mutant of baseUrl: the collection is appended whatever the hosting
baseUrl_anyHosting(config) ==
    IF TruthyChars(config.collection)
    THEN <<render(config.orgUrl) \o <<"/">> \o render(config.collection)>>
    ELSE config.orgUrl

\* logger.ts:338-342
baseUrl(config) ==
    IF config.isOnPremises /\ TruthyChars(config.collection)
    THEN <<render(config.orgUrl) \o <<"/">> \o render(config.collection)>>
    ELSE config.orgUrl

\* Mutant of requestOptions: the header is set whatever the hosting
requestOptions_anyHosting(config) ==
    IF Truthy(config.apiVersion)
    THEN [headers |-> <<[Accept |-> "application/json;api-version=" \o config.apiVersion[1]]>>]
    ELSE [headers |-> undefined]

\* logger.ts:351-358
requestOptions(config) ==
    IF config.isOnPremises /\ Truthy(config.apiVersion)
    THEN [headers |-> <<[Accept |-> "application/json;api-version=" \o config.apiVersion[1]]>>]
    ELSE [headers |-> undefined]

\* x?.replace(/\/\/[^\/]+/, '//***') on an optional character string
maskOptional(o) == IF o = <<>> THEN undefined ELSE <<maskHost(o[1])>>

\* logger.ts:241-245
initializingEntry(config) ==
    LogEntry("INFO", "AzureDevOpsService", "Initializing service",
             <<[authType |-> authTypeOf(config),
                isOnPremises |-> config.isOnPremises,
                orgUrl |-> maskOptional(config.orgUrl)]>>,
             undefined)

\* logger.ts:344-348
connectingEntry(config) ==
    LogEntry("INFO", "AzureDevOpsService", "Connecting to Azure DevOps",
             <<[baseUrl |-> maskOptional(baseUrl(config)),
                isOnPremises |-> config.isOnPremises,
                collection |-> config.collection]>>,
             undefined)

\* logger.ts:364
connectedEntry ==
    LogEntry("INFO", "AzureDevOpsService", "Successfully created Azure DevOps connection",
             undefined, undefined)

\* new azdev.WebApi(baseUrl, authHandler, requestOptions)
WebApi(url, handler, options) ==
    [baseUrl |-> url, authHandler |-> handler, requestOptions |-> options]

\* The fields of a service instance
Service(config, handler, connection) ==
    [config |-> config, authHandler |-> handler, connection |-> connection]

\* Mutant of constructor: a WebApi constructor that throws is called a second
\* time before the failure is logged and thrown
constructor_retry(config, sdk) ==
    LET stage == authStage(config)
        call == WebApi(baseUrl(config), stage.handler[1], requestOptions(config))
    IN
    IF stage.error # <<>> THEN
        [svc |-> Service(<<config>>, undefined, undefined),
         thrown |-> stage.error,
         webApiCalls |-> <<>>,
         log |-> <<initializingEntry(config)>> \o stage.log]
    ELSE IF sdk # <<>> THEN
        [svc |-> Service(<<config>>, stage.handler, undefined),
         thrown |-> sdk,
         webApiCalls |-> <<call, call>>,
         log |-> <<initializingEntry(config)>> \o stage.log
                 \o <<connectingEntry(config),
                      logConnectionFailure("AzureDevOpsService", sdk[1], config)>>]
    ELSE
        [svc |-> Service(<<config>>, stage.handler, <<call>>),
         thrown |-> undefined,
         webApiCalls |-> <<call>>,
         log |-> <<initializingEntry(config)>> \o stage.log
                 \o <<connectingEntry(config), connectedEntry>>]

\* logger.ts:238-369: new AzureDevOpsService(config), where sdk is undefined
\* when the SDK's WebApi constructor returns and the Error it throws otherwise:
\* the instance's fields, the Error thrown to the caller (or undefined), the
\* calls of the WebApi constructor and the entries logged
constructor(config, sdk) ==
    LET stage == authStage(config) IN
    IF stage.error # <<>> THEN
        [svc |-> Service(<<config>>, undefined, undefined),
         thrown |-> stage.error,
         webApiCalls |-> <<>>,
         log |-> <<initializingEntry(config)>> \o stage.log]
    ELSE IF sdk # <<>> THEN
        [svc |-> Service(<<config>>, stage.handler, undefined),
         thrown |-> sdk,
         webApiCalls |->
            <<WebApi(baseUrl(config), stage.handler[1], requestOptions(config))>>,
         log |-> <<initializingEntry(config)>> \o stage.log
                 \o <<connectingEntry(config),
                      logConnectionFailure("AzureDevOpsService", sdk[1], config)>>]
    ELSE
        [svc |-> Service(<<config>>, stage.handler,
                         <<WebApi(baseUrl(config), stage.handler[1], requestOptions(config))>>),
         thrown |-> undefined,
         webApiCalls |->
            <<WebApi(baseUrl(config), stage.handler[1], requestOptions(config))>>,
         log |-> <<initializingEntry(config)>> \o stage.log
                 \o <<connectingEntry(config), connectedEntry>>]

-----------------------------------------------------------------------------
(* Inputs *)

\* Values of an environment variable: unset, empty, or set
OrgUrlValues == {undefined, <<<<>>>>, <<UrlAdo>>}
ProjectValues == {undefined, <<"">>, <<"MyProject">>}
TokenValues == {undefined, <<"">>, <<"token-1">>}
OnPremisesValues == {undefined, <<"true">>, <<"TRUE">>}
CollectionValues == {undefined, <<DefaultCollection>>}
ApiVersionValues == {undefined, <<"6.0">>}
AuthTypeValues ==
    {undefined, <<"">>, <<"pat">>, <<"ntlm">>, <<"basic">>, <<"entra">>, <<"NTLM">>, <<"oauth">>}
UsernameValues == {undefined, <<"">>, <<"alice">>}
PasswordValues == {undefined, <<"">>, <<"secret-1">>}
DomainValues == {undefined, <<"CORP">>}
McpModeValues == {undefined, <<"true">>}

\* The variables that the resolver copies without reading (collection, API
\* version, NTLM domain) are set together or not at all
Environments ==
    {e \in [AZURE_DEVOPS_ORG_URL : OrgUrlValues,
             AZURE_DEVOPS_PROJECT : ProjectValues,
             AZURE_DEVOPS_PERSONAL_ACCESS_TOKEN : TokenValues,
             AZURE_DEVOPS_IS_ON_PREMISES : OnPremisesValues,
             AZURE_DEVOPS_COLLECTION : CollectionValues,
             AZURE_DEVOPS_API_VERSION : ApiVersionValues,
             AZURE_DEVOPS_AUTH_TYPE : AuthTypeValues,
             AZURE_DEVOPS_USERNAME : UsernameValues,
             AZURE_DEVOPS_PASSWORD : PasswordValues,
             AZURE_DEVOPS_DOMAIN : DomainValues,
             MCP_MODE : McpModeValues] :
        /\ (e.AZURE_DEVOPS_COLLECTION = undefined) = (e.AZURE_DEVOPS_API_VERSION = undefined)
        /\ (e.AZURE_DEVOPS_COLLECTION = undefined) = (e.AZURE_DEVOPS_DOMAIN = undefined)}

\* The environment of a caller that builds its configuration itself: only
\* MCP_MODE is read
BareEnvironments ==
    [AZURE_DEVOPS_ORG_URL : {undefined},
     AZURE_DEVOPS_PROJECT : {undefined},
     AZURE_DEVOPS_PERSONAL_ACCESS_TOKEN : {undefined},
     AZURE_DEVOPS_IS_ON_PREMISES : {undefined},
     AZURE_DEVOPS_COLLECTION : {undefined},
     AZURE_DEVOPS_API_VERSION : {undefined},
     AZURE_DEVOPS_AUTH_TYPE : {undefined},
     AZURE_DEVOPS_USERNAME : {undefined},
     AZURE_DEVOPS_PASSWORD : {undefined},
     AZURE_DEVOPS_DOMAIN : {undefined},
     MCP_MODE : McpModeValues]

\* Credential handlers supplied from outside for Entra
EntraHandlers == {Handler("external", <<<<"credential-1">>>>),
                  Handler("external", <<<<"credential-2">>>>)}

\* Auth descriptors a caller can pass
AuthDescriptors ==
    {Auth(t, u, p, undefined) :
        t \in {"ntlm", "basic"},
        u \in UsernameValues,
        p \in PasswordValues \cup {<<"secret-2">>}}
    \cup {Auth(t, c[1], c[2], undefined) :
            t \in {"pat", "entra", "oauth"},
            c \in {<<undefined, undefined>>, <<<<"alice">>, <<"secret-1">> >>}}

\* Configurations a caller can pass to the constructor
Configurations ==
    [orgUrl : {<<UrlAdo>>, <<Url(HostTfs, <<>>)>>, <<Url(HostAdo, PathOrg)>>},
     project : {<<"MyProject">>},
     personalAccessToken : TokenValues \cup {<<"token-2">>},
     isOnPremises : BOOLEAN,
     collection : CollectionValues \cup {<<<<>>>>},
     apiVersion : ApiVersionValues,
     auth : {undefined} \cup {<<a>> : a \in AuthDescriptors},
     entraAuthHandler : {undefined} \cup {<<h>> : h \in EntraHandlers}]

\* What new azdev.WebApi can do: return (undefined) or throw
SdkError == [message |-> <<"Invalid URL">>, code |-> <<"ERR_INVALID_URL">>, type |-> "TypeError"]
SdkOutcomes == {undefined, <<SdkError>>}

-----------------------------------------------------------------------------
(* Start-up: resolve the configuration, construct the service *)

NoService == Service(undefined, undefined, undefined)

\* A slot in which no GitService method has been invoked
NoInvocation ==
    [op |-> "none", params |-> undefined, pc |-> "idle", retrieved |-> FALSE,
     pullRequest |-> undefined, calls |-> <<>>, error |-> undefined, result |-> undefined]
NotResolved == [error |-> undefined, value |-> undefined, console |-> <<>>]

\* An fs.appendFileSync call: the file, the text and whether it succeeded
Append_(file, text, ok) == [file |-> file, text |-> text, ok |-> ok]

\* logger.ts:38-39: the name of the log file of a date
LogFileName(date) == <<"mcp-azure-devops-", date, ".log">>
\* config.ts:98
EnvDebugLogName == <<"env-loading-debug.log">>

\* logger.ts:26-40: the fields of a Logger constructed on date with MCP_MODE
\* as in e
Logger(e, date) == [isMcpMode |-> isMcpMode(e), currentLogFile |-> LogFileName(date)]

\* The modules are loaded (export const logger = Logger.getInstance()) on day
\* 1, and no tool list has been asked for
ProcInit ==
    /\ allowedTools = undefined
    /\ logger = <<Logger(env, 1)>>
    /\ clock = 1

StartInit ==
    /\ \/ caller = "server" /\ env \in Environments
       \/ caller = "library" /\ env \in BareEnvironments
    /\ pc = "start"
    /\ resolved = NotResolved
    /\ svc = NoService
    /\ thrown = undefined
    /\ console = <<>>
    /\ inv = [i \in 1..NumInvocations |-> NoInvocation]
    /\ webApiCalls = <<>>
    /\ appends = <<>>
    /\ files = <<>>
    /\ ProcInit

\* index.ts: const config = getAzureDevOpsConfig()
Resolve ==
    /\ pc = "start" /\ caller = "server"
    /\ resolved' = getAzureDevOpsConfig(env)
    /\ console' = console \o resolved'.console
    /\ pc' = IF resolved'.error # <<>> THEN "resolveFailed" ELSE "resolved"
    /\ UNCHANGED <<env, caller, svc, thrown, inv, webApiCalls, appends, procVars>>

\* The effect of new AzureDevOpsService(config) on the state; fsOk is whether
\* the appends to the log file succeed during the call
Construct(config, sdk, fsOk) ==
    LET r == constructor(config, sdk)
        out == log([file |-> logFile, console |-> console], r.log,
                   logger[1].isMcpMode, fsOk)
    IN /\ svc' = r.svc
       /\ thrown' = r.thrown
       /\ files' = IF out.file = logFile THEN files
                   ELSE Written(files, logger[1].currentLogFile, out.file)
       /\ console' = out.console
       /\ webApiCalls' = webApiCalls \o r.webApiCalls
       /\ appends' = appends \o [k \in DOMAIN r.log |->
                          Append_(logger[1].currentLogFile, formatLogEntry(r.log[k]), fsOk)]
       /\ pc' = IF r.thrown # <<>> THEN "constructFailed" ELSE "connected"

\* A service constructed from the resolved configuration, to which the caller
\* may have attached a credential handler
NewServiceFromResolved ==
    /\ pc = "resolved"
    /\ \E h \in {undefined} \cup {<<x>> : x \in EntraHandlers},
          sdk \in SdkOutcomes, fsOk \in BOOLEAN :
          Construct([resolved.value[1] EXCEPT !.entraAuthHandler = h], sdk, fsOk)
    /\ UNCHANGED <<env, caller, resolved, inv, allowedTools, logger, clock>>

\* A service constructed from a configuration the caller built
NewService ==
    /\ pc = "start" /\ caller = "library"
    /\ \E config \in Configurations, sdk \in SdkOutcomes, fsOk \in BOOLEAN :
          Construct(config, sdk, fsOk)
    /\ UNCHANGED <<env, caller, resolved, inv, allowedTools, logger, clock>>

StartNext == Resolve \/ NewServiceFromResolved \/ NewService

Spec == StartInit /\ [][StartNext]_vars

-----------------------------------------------------------------------------
(* utils/repositoryValidation and Services/GitService: pull-request operations *)

\* A GitPullRequest as the SDK returns it; repository and repository.id may be
\* undefined
PullRequest(id, repository) == [pullRequestId |-> id, repository |-> repository]
Repository(id) == [id |-> id]

MsgNotFound(pullRequestId, repositoryId) ==
    <<"Pull request ", ToString(pullRequestId), " not found in repository ", repositoryId>>
MsgWrongRepository(pullRequestId, actual, repositoryId) ==
    <<"Pull request ", ToString(pullRequestId), " belongs to repository ",
      IF actual = <<>> THEN "undefined" ELSE actual[1], ", not ", repositoryId>>

\* Mutant of checkPullRequest: the repository identifiers are not compared
checkPullRequest_noComparison(pullRequest, repositoryId, pullRequestId) ==
    IF pullRequest = <<>> THEN <<Error(MsgNotFound(pullRequestId, repositoryId))>>
    ELSE undefined

\* logger.ts:192-201: the Error that validatePullRequestRepository throws on
\* the pull request that gitApi.getPullRequest resolved to (undefined for
\* null), or undefined when it returns
checkPullRequest(pullRequest, repositoryId, pullRequestId) ==
    IF pullRequest = <<>> THEN <<Error(MsgNotFound(pullRequestId, repositoryId))>>
    ELSE IF /\ pullRequest[1].repository # <<>>
            /\ pullRequest[1].repository[1].id # <<repositoryId>>
    THEN <<Error(MsgWrongRepository(pullRequestId, pullRequest[1].repository[1].id,
                                     repositoryId))>>
    ELSE undefined

\* logger.ts:928-931 and 1044-1047: the merge strategy number
mergeStrategy(params) ==
    IF params.mergeStrategy = <<"rebase">> THEN 2
    ELSE IF params.mergeStrategy = <<"rebaseMerge">> THEN 3
    ELSE IF params.mergeStrategy = <<"squash">> THEN 4
    ELSE 1

\* The SDK call by which an operation changes the pull request
\* (logger.ts:897, 933, 975, 1010, 1050)
mutatingCall(op, params) ==
    CASE op = "approvePullRequest" -> "createPullRequestReviewer"
      [] op = "mergePullRequest" -> "updatePullRequest"
      [] op = "completePullRequest" -> "updatePullRequest"
      [] op = "addPullRequestComment" ->
            IF params.threadId # <<>> THEN "createComment" ELSE "createThread"

\* The text of the console.error of an operation's catch block
\* (logger.ts:802, 907, 947, 1020, 1064)
catchText(op, params) ==
    CASE op = "getPullRequest" -> "Error getting pull request "
      [] op = "approvePullRequest" -> "Error approving pull request "
      [] op = "mergePullRequest" -> "Error merging pull request "
      [] op = "completePullRequest" -> "Error completing pull request "
      [] op = "addPullRequestComment" -> "Error adding comment to pull request "

\* An SDK call as the remote end sees it
SdkCall(method, params) ==
    [method |-> method, repositoryId |-> params.repositoryId,
     pullRequestId |-> params.pullRequestId]

\* Inputs
RepositoryIds == {"repo-a", "repo-b"}
PullRequestIds == {7}
Operations ==
    {"approvePullRequest", "mergePullRequest", "completePullRequest", "addPullRequestComment"}
Params ==
    [repositoryId : {"repo-a"}, pullRequestId : PullRequestIds,
     threadId : {undefined, <<3>>}, mergeStrategy : {undefined, <<"squash">>}]

\* The parameters an operation reads
ParamsOf(op) ==
    {q \in Params :
        /\ op # "addPullRequestComment" => q.threadId = undefined
        /\ (op \in {"mergePullRequest", "completePullRequest"})
             = (q.mergeStrategy # undefined)}

\* What gitApi.getPullRequest can resolve to: null, or a pull request of any
\* repository, with or without the repository and its id
PullRequestResponses ==
    {undefined}
    \cup {<<PullRequest(n, undefined)>> : n \in PullRequestIds}
    \cup {<<PullRequest(n, <<Repository(undefined)>>)>> : n \in PullRequestIds}
    \cup {<<PullRequest(n, <<Repository(<<r>>)>>)>> : n \in PullRequestIds, r \in RepositoryIds}

\* The Error with which a remote call rejects
RemoteError ==
    [message |-> <<"TF401019: remote call failed">>, code |-> undefined, type |-> "Error"]

Slots == 1..NumInvocations

\* The service that the Git operations run on: the start-up sequence has
\* resolved a cloud PAT configuration in MCP mode and connected
GitEnvironments ==
    {e \in Environments :
        /\ e.AZURE_DEVOPS_ORG_URL = <<UrlAdo>>
        /\ e.AZURE_DEVOPS_PROJECT = <<"MyProject">>
        /\ e.AZURE_DEVOPS_PERSONAL_ACCESS_TOKEN = <<"token-1">>
        /\ e.AZURE_DEVOPS_IS_ON_PREMISES = undefined
        /\ e.AZURE_DEVOPS_AUTH_TYPE = undefined
        /\ e.AZURE_DEVOPS_USERNAME = undefined
        /\ e.AZURE_DEVOPS_PASSWORD = undefined
        /\ e.AZURE_DEVOPS_COLLECTION = undefined
        /\ e.MCP_MODE = <<"true">>}

GitInit ==
    /\ env \in GitEnvironments
    /\ caller = "server"
    /\ pc = "connected"
    /\ resolved = getAzureDevOpsConfig(env)
    /\ LET r == constructor(resolved.value[1], undefined)
           out == log([file |-> <<>>, console |-> <<>>], r.log, isMcpMode(env), TRUE)
       IN /\ svc = r.svc
          /\ thrown = r.thrown
          /\ files = Written(<<>>, LogFileName(1), out.file)
          /\ console = out.console
          /\ webApiCalls = r.webApiCalls
          /\ appends = [k \in DOMAIN r.log |->
                          Append_(LogFileName(1), formatLogEntry(r.log[k]), TRUE)]
    /\ inv = [i \in Slots |-> NoInvocation]
    /\ ProcInit

\* The catch block of an operation: console.error, then the same Error is
\* thrown to the caller
Caught(i, calls, retrieved, pullRequest, error) ==
    /\ inv' = [inv EXCEPT ![i] = [@ EXCEPT !.pc = "threw", !.calls = calls,
                                            !.retrieved = retrieved,
                                            !.pullRequest = pullRequest,
                                            !.error = <<error>>]]
    /\ console' = Append(console,
            ConsoleLine("error",
                <<catchText(inv[i].op, inv[i].params[1]),
                  ToString(inv[i].params[1].pullRequestId), ":">> \o error.message))

\* A caller invokes one of the four operations
Invoke(i) ==
    /\ pc = "connected" /\ svc.connection # <<>>
    /\ inv[i].pc = "idle"
    /\ \E op \in Operations : \E params \in ParamsOf(op) :
          inv' = [inv EXCEPT ![i] = [@ EXCEPT !.op = op, !.params = <<params>>,
                                                !.pc = "getGitApi"]]
    /\ UNCHANGED startVars

\* Mutant of GetGitApi: when the call rejects the service drops its connection
GetGitApi_reconnect(i) ==
    /\ inv[i].pc = "getGitApi"
    /\ LET calls == Append(inv[i].calls, SdkCall("getGitApi", inv[i].params[1])) IN
       \/ /\ inv' = [inv EXCEPT ![i] =
                 [@ EXCEPT !.pc = IF inv[i].op = "getPullRequest"
                                  THEN "getPullRequest" ELSE "validate",
                           !.calls = calls]]
          /\ UNCHANGED <<console, svc>>
       \/ /\ Caught(i, calls, FALSE, undefined, RemoteError)
          /\ svc' = [svc EXCEPT !.connection = undefined]
    /\ UNCHANGED <<env, caller, pc, resolved, thrown,
                   webApiCalls, appends, procVars>>

\* const gitApi = await this.getGitApi()
GetGitApi(i) ==
    /\ inv[i].pc = "getGitApi"
    /\ LET calls == Append(inv[i].calls, SdkCall("getGitApi", inv[i].params[1])) IN
       \/ /\ inv' = [inv EXCEPT ![i] =
                 [@ EXCEPT !.pc = IF inv[i].op = "getPullRequest"
                                  THEN "getPullRequest" ELSE "validate",
                           !.calls = calls]]
          /\ UNCHANGED console
       \/ Caught(i, calls, FALSE, undefined, RemoteError)
    /\ UNCHANGED <<env, caller, pc, resolved, svc, thrown,
                   webApiCalls, appends, procVars>>

\* await validatePullRequestRepository(gitApi, repositoryId, pullRequestId, project)
ValidatePullRequestRepository(i) ==
    /\ inv[i].pc = "validate"
    /\ LET params == inv[i].params[1]
           calls == Append(inv[i].calls, SdkCall("getPullRequest", params))
       IN \/ Caught(i, calls, FALSE, undefined, RemoteError)
          \/ \E response \in PullRequestResponses :
                LET error == checkPullRequest(response, params.repositoryId,
                                              params.pullRequestId)
                IN IF error # <<>>
                   THEN Caught(i, calls, TRUE, response, error[1])
                   ELSE /\ inv' = [inv EXCEPT ![i] =
                              [@ EXCEPT !.pc = IF inv[i].op = "completePullRequest"
                                               THEN "getPullRequestById" ELSE "mutate",
                                        !.calls = calls, !.retrieved = TRUE,
                                        !.pullRequest = response]]
                        /\ UNCHANGED console
    /\ UNCHANGED <<env, caller, pc, resolved, svc, thrown,
                   webApiCalls, appends, procVars>>

\* Mutant of GetPullRequestById: a call that rejects is made a second time
GetPullRequestById_retry(i) ==
    /\ inv[i].pc = "getPullRequestById"
    /\ LET call == SdkCall("getPullRequestById", inv[i].params[1]) IN
       \/ /\ inv' = [inv EXCEPT ![i] = [@ EXCEPT !.pc = "mutate",
                                                 !.calls = Append(inv[i].calls, call)]]
          /\ UNCHANGED console
       \/ Caught(i, inv[i].calls \o <<call, call>>, inv[i].retrieved, inv[i].pullRequest,
                 RemoteError)
    /\ UNCHANGED <<env, caller, pc, resolved, svc, thrown,
                   webApiCalls, appends, procVars>>

\* completePullRequest: const pullRequest = await gitApi.getPullRequestById(id)
GetPullRequestById(i) ==
    /\ inv[i].pc = "getPullRequestById"
    /\ LET calls == Append(inv[i].calls, SdkCall("getPullRequestById", inv[i].params[1])) IN
       \/ /\ inv' = [inv EXCEPT ![i] = [@ EXCEPT !.pc = "mutate", !.calls = calls]]
          /\ UNCHANGED console
       \/ Caught(i, calls, inv[i].retrieved, inv[i].pullRequest, RemoteError)
    /\ UNCHANGED <<env, caller, pc, resolved, svc, thrown,
                   webApiCalls, appends, procVars>>

\* The mutating call of the operation, and its return
Mutate(i) ==
    /\ inv[i].pc = "mutate"
    /\ LET params == inv[i].params[1]
           method == mutatingCall(inv[i].op, params)
           calls == Append(inv[i].calls, SdkCall(method, params))
       IN \/ /\ inv' = [inv EXCEPT ![i] =
                    [@ EXCEPT !.pc = "returned", !.calls = calls,
                              !.result = <<[method |-> method,
                                            strategy |-> mergeStrategy(params)]>>]]
             /\ UNCHANGED console
          \/ Caught(i, calls, inv[i].retrieved, inv[i].pullRequest, RemoteError)
    /\ UNCHANGED <<env, caller, pc, resolved, svc, thrown,
                   webApiCalls, appends, procVars>>

GitNext ==
    \E i \in Slots :
        \/ Invoke(i)
        \/ GetGitApi(i)
        \/ ValidatePullRequestRepository(i)
        \/ GetPullRequestById(i)
        \/ Mutate(i)

SpecGit == GitInit /\ [][GitNext]_vars

-----------------------------------------------------------------------------
(* Properties of the start-up sequence *)

\* An environment variable that is absent or empty
Absent(o) == o = <<>> \/ o = <<"">>
AbsentChars(o) == o = <<>> \/ o = << <<>> >>

\* getAzureDevOpsConfig has been called on env; resolved holds its outcome
ResolverReturned == caller = "server" /\ pc # "start"
ResolverThrew == ResolverReturned /\ resolved.error # <<>>

\* new AzureDevOpsService(svc.config[1]) has run to its end or to its throw
ConstructorReturned == pc \in {"connected", "constructFailed"}
ConstructorThrew == ConstructorReturned /\ thrown # <<>>

\* A message names a variable when the variable is one of its fragments
Names(msg, var) == \E i \in DOMAIN msg : msg[i] = var

RequiredPresent ==
    ~AbsentChars(env.AZURE_DEVOPS_ORG_URL) /\ ~Absent(env.AZURE_DEVOPS_PROJECT)

\* C1: whenever AZURE_DEVOPS_ORG_URL or AZURE_DEVOPS_PROJECT is absent or
\* empty, getAzureDevOpsConfig throws, returns no configuration, and the
\* message of the Error names AZURE_DEVOPS_ORG_URL exactly when it is missing
\* and AZURE_DEVOPS_PROJECT exactly when it is missing, whatever the other
\* variables are.
C1_MissingRequiredNamesExactlyTheMissing ==
    (ResolverReturned /\ ~RequiredPresent) =>
        /\ pc = "resolveFailed"
        /\ resolved.error # <<>>
        /\ resolved.value = undefined
        /\ Names(resolved.error[1].message, "AZURE_DEVOPS_ORG_URL")
             <=> AbsentChars(env.AZURE_DEVOPS_ORG_URL)
        /\ Names(resolved.error[1].message, "AZURE_DEVOPS_PROJECT")
             <=> Absent(env.AZURE_DEVOPS_PROJECT)

\* Both variables are missing, with Entra requested on-premises and every
\* credential set: the resolver has thrown.
C1_Witness ==
    /\ pc = "resolveFailed"
    /\ env.AZURE_DEVOPS_ORG_URL = << <<>> >>
    /\ env.AZURE_DEVOPS_PROJECT = undefined
    /\ env.AZURE_DEVOPS_AUTH_TYPE = <<"entra">>
    /\ env.AZURE_DEVOPS_IS_ON_PREMISES = <<"true">>
    /\ env.AZURE_DEVOPS_PERSONAL_ACCESS_TOKEN = <<"token-1">>
    /\ Names(resolved.error[1].message, "AZURE_DEVOPS_PROJECT")

\* C2: with AZURE_DEVOPS_AUTH_TYPE=entra and AZURE_DEVOPS_IS_ON_PREMISES=true
\* getAzureDevOpsConfig throws and no service is constructed from it; and the
\* constructor, given auth.type entra and isOnPremises true, throws and leaves
\* no connection, whatever the handler, the token and the other fields are.
C2_EntraOnPremisesAlwaysFails ==
    /\ (ResolverReturned /\ env.AZURE_DEVOPS_AUTH_TYPE = <<"entra">>
          /\ env.AZURE_DEVOPS_IS_ON_PREMISES = <<"true">>) =>
            (pc = "resolveFailed" /\ resolved.error # <<>> /\ resolved.value = undefined
             /\ svc.connection = undefined)
    /\ (ConstructorReturned /\ svc.config[1].auth # <<>>
          /\ svc.config[1].auth[1].type = "entra" /\ svc.config[1].isOnPremises) =>
            (pc = "constructFailed" /\ thrown # <<>> /\ svc.connection = undefined)

\* The constructor has run on an Entra on-premises configuration that carries a
\* handler and a token.
C2_Witness ==
    /\ ConstructorReturned
    /\ svc.config[1].auth # <<>>
    /\ svc.config[1].auth[1].type = "entra"
    /\ svc.config[1].isOnPremises
    /\ svc.config[1].entraAuthHandler # <<>>
    /\ svc.config[1].personalAccessToken = <<"token-1">>

\* C3: with auth type ntlm or basic and cloud hosting getAzureDevOpsConfig
\* throws, whatever the username, password, token and collection are, and once
\* the organization URL and the project are present the Error is the
\* unsupported-auth-type one; the constructor, given auth.type ntlm or basic
\* and isOnPremises false, throws the unsupported-auth-type Error and leaves
\* no connection.
C3_NtlmBasicCloudAlwaysFails ==
    /\ (ResolverReturned /\ env.AZURE_DEVOPS_AUTH_TYPE \in {<<"ntlm">>, <<"basic">>}
          /\ env.AZURE_DEVOPS_IS_ON_PREMISES # <<"true">>) =>
            /\ pc = "resolveFailed" /\ resolved.error # <<>> /\ resolved.value = undefined
            /\ svc.connection = undefined
            /\ RequiredPresent =>
                 resolved.error[1].message =
                    <<"Unsupported auth type \"", env.AZURE_DEVOPS_AUTH_TYPE[1],
                      "\" for Azure DevOps cloud. Must be 'pat' or 'entra'.">>
    /\ (ConstructorReturned /\ svc.config[1].auth # <<>>
          /\ svc.config[1].auth[1].type \in {"ntlm", "basic"} /\ ~svc.config[1].isOnPremises) =>
            /\ pc = "constructFailed" /\ svc.connection = undefined
            /\ svc.authHandler = undefined
            /\ thrown # <<>>
            /\ thrown[1].message =
                    <<"Unsupported authentication type \"", svc.config[1].auth[1].type,
                      "\" for Azure DevOps cloud.">>

\* The constructor has run on a cloud Basic configuration that carries a
\* username, a password, a token and a collection.
C3_Witness ==
    /\ ConstructorReturned
    /\ ~svc.config[1].isOnPremises
    /\ svc.config[1].auth = <<Auth("basic", <<"alice">>, <<"secret-1">>, undefined)>>
    /\ svc.config[1].personalAccessToken = <<"token-1">>
    /\ svc.config[1].collection = <<DefaultCollection>>

\* C4: when AZURE_DEVOPS_AUTH_TYPE is not exactly pat, ntlm, basic or entra
\* (unset, empty, NTLM, oauth), the outcome of getAzureDevOpsConfig is the
\* outcome it has on the same environment with AZURE_DEVOPS_AUTH_TYPE=pat,
\* and the message of a thrown Error does not carry the unrecognized value.
C4_UnrecognizedAuthTypeIsPat ==
    (ResolverReturned
      /\ env.AZURE_DEVOPS_AUTH_TYPE \notin {<<"pat">>, <<"ntlm">>, <<"basic">>, <<"entra">>}) =>
        /\ resolved = getAzureDevOpsConfig([env EXCEPT !.AZURE_DEVOPS_AUTH_TYPE = <<"pat">>])
        /\ resolved.value # <<>> => resolved.value[1].auth[1].type = "pat"
        /\ (resolved.error # <<>> /\ env.AZURE_DEVOPS_AUTH_TYPE # <<>>) =>
              ~Names(resolved.error[1].message, env.AZURE_DEVOPS_AUTH_TYPE[1])

\* The resolver has returned a configuration for AZURE_DEVOPS_AUTH_TYPE=NTLM
\* on-premises with no username: it is the PAT configuration.
C4_Witness ==
    /\ pc = "resolved"
    /\ env.AZURE_DEVOPS_AUTH_TYPE = <<"NTLM">>
    /\ env.AZURE_DEVOPS_IS_ON_PREMISES = <<"true">>
    /\ env.AZURE_DEVOPS_USERNAME = undefined
    /\ resolved.value[1].auth[1].type = "pat"

\* The configurations that differ from c only in the value of a non-empty
\* token, in the value of a non-empty password, or in the host of orgUrl
Hosts == {HostAdo, HostTfs}
Paths == {<<>>, PathOrg}
SecretVariants(c) ==
    (IF Truthy(c.personalAccessToken)
     THEN {[c EXCEPT !.personalAccessToken = <<t>>] : t \in {"token-1", "token-2"}}
     ELSE {})
    \cup (IF Truthy(authPasswordOf(c))
         THEN {[c EXCEPT !.auth = <<[c.auth[1] EXCEPT !.password = <<w>>]>>] :
                  w \in {"secret-1", "secret-2"}}
         ELSE {})
    \cup {[c EXCEPT !.orgUrl = <<Url(h[2], q)>>] :
            h \in {x \in Hosts \X Hosts : \E q \in Paths : c.orgUrl = <<Url(x[1], q)>>},
            q \in {y \in Paths : \E x \in Hosts : c.orgUrl = <<Url(x, y)>>}}

\* The formatted "Connection failed" entries in the log file and on the console
ConnectionFailures ==
    {logFile[i] : i \in {j \in DOMAIN logFile : logFile[j].base[3] = "Connection failed"}}
    \cup {console[i].entry[1] :
            i \in {j \in DOMAIN console :
                     /\ console[j].entry # <<>>
                     /\ console[j].entry[1].base[3] = "Connection failed"}}

\* C6: the configuration that a connection failure logs, in the file and on
\* the console, is the same for every configuration that differs from the
\* one given only in the value of a non-empty token, in the value of a
\* non-empty password or in the host of orgUrl; the token and the username
\* appear as booleans, the host as ***, and the password not at all.
C6_ConnectionFailureLogIsSanitized ==
    (ConstructorReturned /\ thrown = <<SdkError>>) =>
        \A f \in ConnectionFailures :
            /\ \A c \in SecretVariants(svc.config[1]) :
                  f.context[1].config = sanitizedConfig(c)
            /\ f.context[1].config.hasToken
                  = (svc.config[1].personalAccessToken \notin {<<>>, <<"">>})
            /\ DOMAIN f.context[1].config =
                  {"orgUrl", "authType", "isOnPremises", "hasToken", "hasUsername",
                   "collection", "apiVersion", "project"}
            /\ f.context[1].config.orgUrl \in
                  {Scheme \o <<"*","*","*">> \o q : q \in Paths}

\* A connection failure has been written to the log file for an NTLM
\* configuration with a token, a password and the host tfs:80.
C6_Witness ==
    /\ pc = "constructFailed"
    /\ thrown = <<SdkError>>
    /\ svc.config[1].personalAccessToken = <<"token-2">>
    /\ authPasswordOf(svc.config[1]) = <<"secret-2">>
    /\ svc.config[1].orgUrl = <<Url(HostTfs, <<>>)>>
    /\ \E i \in DOMAIN logFile : logFile[i].base[3] = "Connection failed"
    /\ ConnectionFailures # {}

\* C7: on-premises with auth type ntlm or basic, and the organization URL and
\* the project present: getAzureDevOpsConfig throws the missing-credentials
\* Error when AZURE_DEVOPS_USERNAME or AZURE_DEVOPS_PASSWORD is absent or
\* empty, and otherwise returns the ntlm/basic descriptor carrying both,
\* whatever the token is; the constructor, given isOnPremises and auth.type
\* ntlm or basic, throws the missing-credentials Error when auth.username or
\* auth.password is absent or empty and otherwise builds the handler of that
\* kind from them.
C7_OnPremisesNtlmBasicNeedCredentials ==
    /\ (ResolverReturned /\ RequiredPresent
          /\ env.AZURE_DEVOPS_IS_ON_PREMISES = <<"true">>
          /\ env.AZURE_DEVOPS_AUTH_TYPE \in {<<"ntlm">>, <<"basic">>}) =>
            IF Absent(env.AZURE_DEVOPS_USERNAME) \/ Absent(env.AZURE_DEVOPS_PASSWORD)
            THEN /\ pc = "resolveFailed" /\ resolved.value = undefined
                 /\ resolved.error # <<>>
                 /\ resolved.error[1].message =
                      IF env.AZURE_DEVOPS_AUTH_TYPE = <<"ntlm">>
                      THEN <<"NTLM authentication requires username and password.">>
                      ELSE <<"Basic authentication requires username and password.">>
            ELSE /\ resolved.error = undefined
                 /\ resolved.value # <<>>
                 /\ resolved.value[1].auth[1].type = env.AZURE_DEVOPS_AUTH_TYPE[1]
                 /\ resolved.value[1].auth[1].username = env.AZURE_DEVOPS_USERNAME
                 /\ resolved.value[1].auth[1].password = env.AZURE_DEVOPS_PASSWORD
    /\ (ConstructorReturned /\ svc.config[1].isOnPremises /\ svc.config[1].auth # <<>>
          /\ svc.config[1].auth[1].type \in {"ntlm", "basic"}) =>
            LET auth == svc.config[1].auth[1] IN
            IF Absent(auth.username) \/ Absent(auth.password)
            THEN /\ pc = "constructFailed" /\ svc.connection = undefined
                 /\ thrown # <<>>
                 /\ thrown[1].message =
                      IF auth.type = "ntlm"
                      THEN <<"NTLM authentication requires username and password">>
                      ELSE <<"Basic authentication requires username and password">>
            ELSE /\ thrown \in {undefined, <<SdkError>>}
                 /\ svc.authHandler # <<>>
                 /\ svc.authHandler[1].kind = auth.type
                 /\ svc.authHandler[1].args[1] = auth.username
                 /\ svc.authHandler[1].args[2] = auth.password

\* A service is connected from a resolved on-premises Basic configuration
\* whose token is empty.
C7_Witness ==
    /\ caller = "server" /\ pc = "connected"
    /\ env.AZURE_DEVOPS_AUTH_TYPE = <<"basic">>
    /\ env.AZURE_DEVOPS_PERSONAL_ACCESS_TOKEN = undefined
    /\ svc.config[1].auth[1].username = <<"alice">>
    /\ svc.authHandler[1].kind = "basic"

\* C8: with auth type pat, requested or defaulted, on-premises and in the
\* cloud, and the organization URL and the project present:
\* getAzureDevOpsConfig throws the missing-token Error when
\* AZURE_DEVOPS_PERSONAL_ACCESS_TOKEN is absent or empty and otherwise returns
\* auth type pat with that token; the constructor, given auth.type pat or no
\* auth descriptor, throws the missing-token Error when personalAccessToken
\* is absent or empty and otherwise builds the PAT handler from it.
C8_PatNeedsToken ==
    /\ (ResolverReturned /\ RequiredPresent
          /\ env.AZURE_DEVOPS_AUTH_TYPE \notin {<<"ntlm">>, <<"basic">>, <<"entra">>}) =>
            IF Absent(env.AZURE_DEVOPS_PERSONAL_ACCESS_TOKEN)
            THEN /\ pc = "resolveFailed" /\ resolved.value = undefined
                 /\ resolved.error # <<>>
                 /\ resolved.error[1].message =
                      IF env.AZURE_DEVOPS_IS_ON_PREMISES = <<"true">>
                      THEN <<"PAT authentication requires a personal access token.">>
                      ELSE MsgPatCloud
            ELSE /\ resolved.error = undefined
                 /\ resolved.value # <<>>
                 /\ resolved.value[1].auth[1].type = "pat"
                 /\ resolved.value[1].personalAccessToken
                      = env.AZURE_DEVOPS_PERSONAL_ACCESS_TOKEN
    /\ (ConstructorReturned
          /\ (svc.config[1].auth = undefined \/ svc.config[1].auth[1].type = "pat")) =>
            IF Absent(svc.config[1].personalAccessToken)
            THEN /\ pc = "constructFailed" /\ svc.connection = undefined
                 /\ svc.authHandler = undefined
                 /\ thrown # <<>>
                 /\ thrown[1].message =
                      IF svc.config[1].isOnPremises /\ svc.config[1].auth # undefined
                      THEN MsgCtorPatOnPrem ELSE MsgCtorPatCloud
            ELSE /\ thrown \in {undefined, <<SdkError>>}
                 /\ svc.authHandler
                      = <<[kind |-> "pat", args |-> <<svc.config[1].personalAccessToken>>]>>

\* The constructor has thrown on an on-premises configuration with no auth
\* descriptor and an empty token.
C8_Witness ==
    /\ pc = "constructFailed"
    /\ svc.config[1].auth = undefined
    /\ svc.config[1].isOnPremises
    /\ svc.config[1].personalAccessToken = <<"">>
    /\ thrown[1].message = MsgCtorPatCloud

\* C9: for auth type entra in the cloud, with the organization URL and the
\* project present, getAzureDevOpsConfig returns the entra descriptor whatever
\* the token is; the constructor throws the missing-handler Error and leaves
\* no connection when no entraAuthHandler is supplied, and otherwise assigns
\* the supplied handler itself to authHandler and hands it to the connection,
\* an empty token being no error.
C9_EntraCloudNeedsHandler ==
    /\ (ResolverReturned /\ RequiredPresent
          /\ env.AZURE_DEVOPS_AUTH_TYPE = <<"entra">>
          /\ env.AZURE_DEVOPS_IS_ON_PREMISES # <<"true">>) =>
            /\ resolved.error = undefined
            /\ resolved.value # <<>>
            /\ resolved.value[1].auth[1].type = "entra"
    /\ (ConstructorReturned /\ svc.config[1].auth # <<>>
          /\ svc.config[1].auth[1].type = "entra" /\ ~svc.config[1].isOnPremises) =>
            IF svc.config[1].entraAuthHandler = undefined
            THEN /\ pc = "constructFailed" /\ svc.connection = undefined
                 /\ svc.authHandler = undefined
                 /\ thrown # <<>>
                 /\ thrown[1].message =
                      <<"Entra authentication requires an instance of EntraAuthHandler.">>
            ELSE /\ thrown \in {undefined, <<SdkError>>}
                 /\ svc.authHandler = svc.config[1].entraAuthHandler
                 /\ thrown = undefined =>
                      /\ pc = "connected"
                      /\ svc.connection # <<>>
                      /\ svc.connection[1].authHandler = svc.config[1].entraAuthHandler[1]

\* A service is connected from a resolved cloud Entra configuration with no
\* token, through the second supplied handler.
C9_Witness ==
    /\ caller = "server" /\ pc = "connected"
    /\ env.AZURE_DEVOPS_AUTH_TYPE = <<"entra">>
    /\ env.AZURE_DEVOPS_PERSONAL_ACCESS_TOKEN = undefined
    /\ svc.connection[1].authHandler = Handler("external", <<<<"credential-2">>>>)

UrlAdoDefaultCollection ==
    <<"h","t","t","p","s",":","/","/","a","d","o",".","e","x","a","m","p","l","e",".","c","o","m",
      "/","D","e","f","a","u","l","t","C","o","l","l","e","c","t","i","o","n">>

\* C10: the base URL of a constructed connection is orgUrl, "/" and the
\* collection when the configuration is on-premises with a non-empty
\* collection, and orgUrl itself in every other case; for
\* https://ado.example.com on-premises with DefaultCollection it is
\* https://ado.example.com/DefaultCollection.
C10_BaseUrl ==
    (pc = "connected") =>
        LET config == svc.config[1]
            url == svc.connection[1].baseUrl
        IN /\ IF config.isOnPremises /\ ~AbsentChars(config.collection)
              THEN url = <<config.orgUrl[1] \o <<"/">> \o config.collection[1]>>
              ELSE url = config.orgUrl
           /\ ~config.isOnPremises => url = config.orgUrl
           /\ (config.isOnPremises /\ config.orgUrl = <<UrlAdo>>
                /\ config.collection = <<DefaultCollection>>) =>
                 url = <<UrlAdoDefaultCollection>>

\* A connection is constructed on-premises for https://ado.example.com with
\* DefaultCollection.
C10_Witness ==
    /\ pc = "connected"
    /\ svc.config[1].isOnPremises
    /\ svc.config[1].orgUrl = <<UrlAdo>>
    /\ svc.config[1].collection = <<DefaultCollection>>
    /\ svc.connection[1].baseUrl = <<UrlAdoDefaultCollection>>

\* A connection is constructed in the cloud for a configuration that carries a
\* collection.
C10_WitnessCloud ==
    /\ pc = "connected"
    /\ ~svc.config[1].isOnPremises
    /\ svc.config[1].collection = <<DefaultCollection>>

-----------------------------------------------------------------------------
(* Properties of the pull-request operations *)

\* The SDK calls that change a pull request
MutatingMethods ==
    {"createPullRequestReviewer", "updatePullRequest", "createComment", "createThread"}

\* The methods of the SDK calls that invocation i has issued so far, in order
MethodsOf(i) == [k \in DOMAIN inv[i].calls |-> inv[i].calls[k].method]

\* Invocation i has retrieved a pull request that carries a repository whose
\* identifier is not the requested repositoryId
Mismatch(i) ==
    /\ inv[i].retrieved
    /\ inv[i].pullRequest # <<>>
    /\ inv[i].pullRequest[1].repository # <<>>
    /\ inv[i].pullRequest[1].repository[1].id # <<inv[i].params[1].repositoryId>>

\* C5: in every invocation of approvePullRequest, mergePullRequest,
\* addPullRequestComment and completePullRequest a mutating SDK call is
\* preceded by the retrieval of the pull request (gitApi.getPullRequest with
\* the requested repositoryId and pullRequestId), and an invocation that has
\* retrieved a pull request whose repository identifier differs from the
\* requested repositoryId has thrown the repository-mismatch Error and issues
\* no mutating SDK call at any point, whatever the other invocations do.
C5_MismatchFailsBeforeAnyMutation ==
    \A i \in Slots :
        /\ \A k \in DOMAIN inv[i].calls :
              inv[i].calls[k].method \in MutatingMethods =>
                 \E j \in 1..(k - 1) :
                    inv[i].calls[j] = SdkCall("getPullRequest", inv[i].params[1])
        /\ Mismatch(i) =>
              /\ inv[i].pc = "threw"
              /\ inv[i].result = undefined
              /\ inv[i].error # <<>>
              /\ inv[i].error[1].message =
                    <<"Pull request ", ToString(inv[i].params[1].pullRequestId),
                      " belongs to repository ",
                      IF inv[i].pullRequest[1].repository[1].id = <<>> THEN "undefined"
                      ELSE inv[i].pullRequest[1].repository[1].id[1],
                      ", not ", inv[i].params[1].repositoryId>>
              /\ MethodsOf(i) = <<"getGitApi", "getPullRequest">>

\* A mergePullRequest of repo-a has retrieved a pull request of repo-b and has
\* thrown, while another invocation has gone through to its mutating call.
C5_Witness ==
    \E i, j \in Slots :
        /\ inv[i].op = "mergePullRequest"
        /\ inv[i].pc = "threw"
        /\ Mismatch(i)
        /\ inv[i].pullRequest[1].repository[1].id = <<"repo-b">>
        /\ inv[j].pc = "returned"
        /\ inv[j].result[1].method = "createThread"

-----------------------------------------------------------------------------
(* GitService.getPullRequest (logger.ts:777-837) *)

\* A pull request as gitApi.getPullRequest resolves it, with the numeric
\* status and mergeStatus of the SDK (undefined when the field is missing)
PullRequestWithStatus(id, repository, status, mergeStatus) ==
    [pullRequestId |-> id, repository |-> repository,
     status |-> status, mergeStatus |-> mergeStatus]

\* Template literal `unknown(${v})`
unknown(v) == <<"unknown(", ToString(v), ")">>

\* Mutant of getPullRequestStatusText: 0 has no name of its own
getPullRequestStatusText_noNotSet(status) ==
    CASE status = 1 -> <<"active">>
      [] status = 2 -> <<"abandoned">>
      [] status = 3 -> <<"completed">>
      [] OTHER -> unknown(status)

\* logger.ts:812-820
getPullRequestStatusText(status) ==
    CASE status = 0 -> <<"notSet">>
      [] status = 1 -> <<"active">>
      [] status = 2 -> <<"abandoned">>
      [] status = 3 -> <<"completed">>
      [] OTHER -> unknown(status)

\* Mutant of getMergeStatusText: 0 is read as notSet
getMergeStatusText_zeroNotSet(mergeStatus) ==
    CASE mergeStatus = 1 -> <<"conflicts">>
      [] mergeStatus = 2 -> <<"failure">>
      [] mergeStatus \in {0, 3} -> <<"notSet">>
      [] mergeStatus = 4 -> <<"queued">>
      [] mergeStatus = 5 -> <<"rejectedByPolicy">>
      [] mergeStatus = 6 -> <<"succeeded">>
      [] OTHER -> unknown(mergeStatus)

\* logger.ts:827-837
getMergeStatusText(mergeStatus) ==
    CASE mergeStatus = 1 -> <<"conflicts">>
      [] mergeStatus = 2 -> <<"failure">>
      [] mergeStatus = 3 -> <<"notSet">>
      [] mergeStatus = 4 -> <<"queued">>
      [] mergeStatus = 5 -> <<"rejectedByPolicy">>
      [] mergeStatus = 6 -> <<"succeeded">>
      [] OTHER -> unknown(mergeStatus)

\* logger.ts:789: Number(pullRequest.status ?? 0)
statusNumber(pullRequest) ==
    IF pullRequest.status = undefined THEN 0 ELSE pullRequest.status[1]

\* logger.ts:793: Number(pullRequest.mergeStatus ?? 3)
mergeStatusNumber(pullRequest) ==
    IF pullRequest.mergeStatus = undefined THEN 3 ELSE pullRequest.mergeStatus[1]

\* logger.ts:796-800: { ...pullRequest, status: statusText, mergeStatus: mergeStatusText }
getPullRequestResult(pullRequest) ==
    [pullRequest EXCEPT !.status = getPullRequestStatusText(statusNumber(pullRequest)),
                        !.mergeStatus = getMergeStatusText(mergeStatusNumber(pullRequest))]

\* logger.ts:789 on a null pull request
NullStatusError ==
    [message |-> <<"Cannot read properties of null (reading 'status')">>,
     code |-> undefined, type |-> "TypeError"]

\* Inputs
MaxStatus == 5
MaxMergeStatus == 7
StatusValues == {undefined} \cup {<<v>> : v \in 0..MaxStatus}
MergeStatusValues == {undefined} \cup {<<v>> : v \in 0..MaxMergeStatus}
StatusResponses ==
    {undefined}
    \cup {<<PullRequestWithStatus(7, <<Repository(<<"repo-a">>)>>, st, ms)>> :
            st \in StatusValues, ms \in MergeStatusValues}
GetPullRequestParams ==
    [repositoryId : {"repo-a"}, pullRequestId : PullRequestIds,
     threadId : {undefined}, mergeStrategy : {undefined}]

\* A caller invokes getPullRequest
InvokeGetPullRequest(i) ==
    /\ pc = "connected" /\ svc.connection # <<>>
    /\ inv[i].pc = "idle"
    /\ \E params \in GetPullRequestParams :
          inv' = [inv EXCEPT ![i] = [@ EXCEPT !.op = "getPullRequest",
                                                !.params = <<params>>,
                                                !.pc = "getGitApi"]]
    /\ UNCHANGED startVars

\* const pullRequest = await gitApi.getPullRequest(...), the two texts and
\* the return
GetPullRequest(i) ==
    /\ inv[i].pc = "getPullRequest"
    /\ LET calls == Append(inv[i].calls, SdkCall("getPullRequest", inv[i].params[1])) IN
       \/ Caught(i, calls, FALSE, undefined, RemoteError)
       \/ \E response \in StatusResponses :
             IF response = undefined
             THEN Caught(i, calls, TRUE, response, NullStatusError)
             ELSE /\ inv' = [inv EXCEPT ![i] =
                        [@ EXCEPT !.pc = "returned", !.calls = calls,
                                  !.retrieved = TRUE, !.pullRequest = response,
                                  !.result = <<getPullRequestResult(response[1])>>]]
                  /\ UNCHANGED console
    /\ UNCHANGED <<env, caller, pc, resolved, svc, thrown,
                   webApiCalls, appends, procVars>>

GetPullRequestNext ==
    \E i \in Slots :
        \/ InvokeGetPullRequest(i)
        \/ GetGitApi(i)
        \/ GetPullRequest(i)

SpecGetPullRequest == GitInit /\ [][GetPullRequestNext]_vars

\* getPullRequest has returned in slot i
Returned(i) == inv[i].op = "getPullRequest" /\ inv[i].pc = "returned"

\* C11: the status that getPullRequest returns is notSet, active, abandoned,
\* completed for the SDK's status 0, 1, 2, 3, unknown(v) for every other number
\* v, and notSet for a pull request that carries no status.
C11_StatusText ==
    \A i \in Slots : Returned(i) =>
        LET given == inv[i].pullRequest[1].status
            text == inv[i].result[1].status
        IN /\ given = undefined => text = <<"notSet">>
           /\ given = <<0>> => text = <<"notSet">>
           /\ given = <<1>> => text = <<"active">>
           /\ given = <<2>> => text = <<"abandoned">>
           /\ given = <<3>> => text = <<"completed">>
           /\ (given # undefined /\ given[1] \notin 0..3) =>
                 text = <<"unknown(", ToString(given[1]), ")">>
           /\ text \in {<<"notSet">>, <<"active">>, <<"abandoned">>, <<"completed">>}
                 <=> (given = undefined \/ given[1] \in 0..3)

\* getPullRequest has returned notSet for status 0 in one invocation and
\* unknown(4) for status 4 in another.
C11_Witness ==
    \E i, j \in Slots :
        /\ Returned(i) /\ inv[i].pullRequest[1].status = <<0>>
        /\ inv[i].result[1].status = <<"notSet">>
        /\ Returned(j) /\ inv[j].pullRequest[1].status = <<4>>
        /\ inv[j].result[1].status = <<"unknown(", "4", ")">>

\* C12: the mergeStatus that getPullRequest returns is conflicts, failure,
\* notSet, queued, rejectedByPolicy, succeeded for the SDK's merge status 1, 2,
\* 3, 4, 5, 6, unknown(v) for every number v outside 1..6 (0 included), and
\* notSet for a pull request that carries no merge status.
C12_MergeStatusText ==
    \A i \in Slots : Returned(i) =>
        LET given == inv[i].pullRequest[1].mergeStatus
            text == inv[i].result[1].mergeStatus
        IN /\ given = undefined => text = <<"notSet">>
           /\ given = <<1>> => text = <<"conflicts">>
           /\ given = <<2>> => text = <<"failure">>
           /\ given = <<3>> => text = <<"notSet">>
           /\ given = <<4>> => text = <<"queued">>
           /\ given = <<5>> => text = <<"rejectedByPolicy">>
           /\ given = <<6>> => text = <<"succeeded">>
           /\ (given # undefined /\ given[1] \notin 1..6) =>
                 text = <<"unknown(", ToString(given[1]), ")">>

\* getPullRequest has returned unknown(0) for merge status 0 in one invocation
\* and notSet for a pull request without merge status in another.
C12_Witness ==
    \E i, j \in Slots :
        /\ Returned(i) /\ inv[i].pullRequest[1].mergeStatus = <<0>>
        /\ inv[i].result[1].mergeStatus = <<"unknown(", "0", ")">>
        /\ Returned(j) /\ inv[j].pullRequest[1].mergeStatus = undefined
        /\ inv[j].result[1].mergeStatus = <<"notSet">>

-----------------------------------------------------------------------------
(* getAllowedTools (config.ts:207-226) *)

\* The tool names that the tool modules export (config.ts:5-12), as character
\* strings
AIAssistedDevelopmentToolMethods == << <<"a","i","1">> >>
ArtifactManagementToolMethods == << <<"a","m","1">> >>
BoardsSprintsToolMethods == << <<"b","s","1">> >>
DevSecOpsToolMethods == << <<"d","s","1">> >>
GitToolMethods == << <<"g","1">>, <<"g","2">> >>
ProjectToolMethods == << <<"p","1">> >>
TestingCapabilitiesToolMethods == << <<"t","1">> >>
WorkItemToolMethods == << <<"w","1">>, <<"w","2">> >>

\* Mutant of ALL_ALLOWED_TOOLS: the last group is not concatenated
ALL_ALLOWED_TOOLS_noWorkItems ==
    AIAssistedDevelopmentToolMethods \o ArtifactManagementToolMethods
    \o BoardsSprintsToolMethods \o DevSecOpsToolMethods \o GitToolMethods
    \o ProjectToolMethods \o TestingCapabilitiesToolMethods

\* config.ts:207-214
ALL_ALLOWED_TOOLS ==
    AIAssistedDevelopmentToolMethods \o ArtifactManagementToolMethods
    \o BoardsSprintsToolMethods \o DevSecOpsToolMethods \o GitToolMethods
    \o ProjectToolMethods \o TestingCapabilitiesToolMethods \o WorkItemToolMethods

\* new Set(array)
Set(array) == {array[k] : k \in DOMAIN array}

\* The index of the first "," of a character string, 0 when it has none
RECURSIVE firstComma(_, _)
firstComma(s, k) ==
    IF k > Len(s) THEN 0 ELSE IF s[k] = "," THEN k ELSE firstComma(s, k + 1)

\* Mutant of split: only the text before the first "," is kept
split_firstOnly(s) ==
    LET k == firstComma(s, 1) IN
    IF k = 0 THEN <<s>> ELSE <<SubSeq(s, 1, k - 1)>>

\* String.prototype.split(',') on a character string
RECURSIVE split(_)
split(s) ==
    LET k == firstComma(s, 1) IN
    IF k = 0 THEN <<s>>
    ELSE <<SubSeq(s, 1, k - 1)>> \o split(SubSeq(s, k + 1, Len(s)))

\* config.ts:221-226 on the environment e
getAllowedTools(e) ==
    IF ~TruthyChars(e.ALLOWED_TOOLS) THEN Set(ALL_ALLOWED_TOOLS)
    ELSE Set(split(e.ALLOWED_TOOLS[1]))

\* Inputs: ALLOWED_TOOLS unset, empty, or up to MaxListed names joined by ","
MaxListed == 3
ListedNames ==
    {<<"g","1">>, <<"g","2">>, <<"w","1">>, <<" ","g","1">>, <<"x">>}
Lists == UNION {[1..n -> ListedNames] : n \in 1..MaxListed}
RECURSIVE joinChars(_)
joinChars(list) ==
    IF Len(list) = 1 THEN list[1]
    ELSE list[1] \o <<",">> \o joinChars(Tail(list))
AllowedToolsValues ==
    {undefined, << <<>> >>} \cup {<<joinChars(list)>> : list \in Lists}
ToolEnvironments == [ALLOWED_TOOLS : AllowedToolsValues, MCP_MODE : {<<"true">>}]

ToolsInit ==
    /\ env \in ToolEnvironments
    /\ caller = "server"
    /\ pc = "start"
    /\ resolved = NotResolved
    /\ svc = NoService
    /\ thrown = undefined
    /\ console = <<>>
    /\ inv = [i \in Slots |-> NoInvocation]
    /\ webApiCalls = <<>>
    /\ appends = <<>>
    /\ files = <<>>
    /\ ProcInit

\* const allowedTools = getAllowedTools()
GetAllowedTools ==
    /\ allowedTools = undefined
    /\ allowedTools' = <<getAllowedTools(env)>>
    /\ UNCHANGED <<env, caller, pc, resolved, svc, thrown, console, inv,
                   webApiCalls, appends, logger, files, clock>>

ToolsNext == GetAllowedTools

SpecTools == ToolsInit /\ [][ToolsNext]_vars

\* C13: with ALLOWED_TOOLS unset getAllowedTools returns the names of all
\* eight tool groups; with ALLOWED_TOOLS set to names joined by "," it returns
\* exactly the set of the names listed, whatever their order and however often
\* each is listed.
C13_AllowedTools ==
    allowedTools # undefined =>
        /\ env.ALLOWED_TOOLS = undefined =>
              allowedTools[1] =
                 Set(AIAssistedDevelopmentToolMethods) \cup Set(ArtifactManagementToolMethods)
                 \cup Set(BoardsSprintsToolMethods) \cup Set(DevSecOpsToolMethods)
                 \cup Set(GitToolMethods) \cup Set(ProjectToolMethods)
                 \cup Set(TestingCapabilitiesToolMethods) \cup Set(WorkItemToolMethods)
        /\ \A list \in Lists :
              env.ALLOWED_TOOLS = <<joinChars(list)>> =>
                 allowedTools[1] = {list[k] : k \in DOMAIN list}

\* getAllowedTools has returned {g1, w1} for ALLOWED_TOOLS=w1,g1,w1.
C13_Witness ==
    /\ env.ALLOWED_TOOLS = << <<"w","1",",","g","1",",","w","1">> >>
    /\ allowedTools = <<{<<"g","1">>, <<"w","1">>}>>

\* getAllowedTools has returned all ten names for an unset ALLOWED_TOOLS.
C13_WitnessUnset ==
    /\ env.ALLOWED_TOOLS = undefined
    /\ allowedTools # undefined
    /\ Cardinality(allowedTools[1]) = 10

-----------------------------------------------------------------------------
(* Properties of the request options *)

\* C14: the request options handed to new azdev.WebApi carry the header
\* Accept: application/json;api-version=<apiVersion> when the configuration is
\* on-premises with an API version, and no headers in the cloud, API version
\* or not, and on-premises without API version.
C14_AcceptHeader ==
    \A k \in DOMAIN webApiCalls :
        LET config == svc.config[1]
            options == webApiCalls[k].requestOptions
        IN /\ (config.isOnPremises /\ config.apiVersion = <<"6.0">>) =>
                 options.headers = <<[Accept |-> "application/json;api-version=6.0"]>>
           /\ ~config.isOnPremises => options.headers = undefined
           /\ config.apiVersion = undefined => options.headers = undefined
           /\ DOMAIN options = {"headers"}
           /\ pc = "connected" => svc.connection[1].requestOptions = options

\* A connection is constructed in the cloud from a configuration that carries
\* an API version, and its request options have no headers.
C14_Witness ==
    /\ pc = "connected"
    /\ ~svc.config[1].isOnPremises
    /\ svc.config[1].apiVersion = <<"6.0">>
    /\ svc.connection[1].requestOptions.headers = undefined
    /\ Len(webApiCalls) = 1

\* A connection is constructed on-premises with API version 6.0 and the
\* Accept header.
C14_WitnessOnPremises ==
    /\ pc = "connected"
    /\ svc.config[1].isOnPremises
    /\ svc.connection[1].requestOptions.headers
         = <<[Accept |-> "application/json;api-version=6.0"]>>

-----------------------------------------------------------------------------
(* Properties of the configurations that getAzureDevOpsConfig returns *)

\* C18: a configuration that getAzureDevOpsConfig returns has a non-empty
\* organization URL and project; auth type entra only with cloud hosting; auth
\* type ntlm or basic only on-premises and with a non-empty username and
\* password in the descriptor; auth type pat only with a non-empty token.
C18_DescriptorInvariant ==
    (ResolverReturned /\ resolved.value # undefined) =>
        LET config == resolved.value[1]
            auth == config.auth[1]
        IN /\ config.orgUrl # undefined /\ config.orgUrl[1] # <<>>
           /\ config.project # undefined /\ config.project[1] # ""
           /\ config.auth # undefined
           /\ auth.type \in {"pat", "ntlm", "basic", "entra"}
           /\ auth.type = "entra" => ~config.isOnPremises
           /\ auth.type \in {"ntlm", "basic"} =>
                 /\ config.isOnPremises
                 /\ auth.username # undefined /\ auth.username[1] # ""
                 /\ auth.password # undefined /\ auth.password[1] # ""
           /\ auth.type = "pat" =>
                 /\ config.personalAccessToken # undefined
                 /\ config.personalAccessToken[1] # ""

\* getAzureDevOpsConfig has returned an on-premises NTLM configuration whose
\* token is empty.
C18_Witness ==
    /\ pc = "resolved"
    /\ resolved.value[1].auth[1].type = "ntlm"
    /\ resolved.value[1].isOnPremises
    /\ resolved.value[1].personalAccessToken = <<"">>
    /\ resolved.value[1].auth[1].username = <<"alice">>

-----------------------------------------------------------------------------
(* Properties of the side effects of getAzureDevOpsConfig *)

\* C19: getAzureDevOpsConfig has no effect beyond reading the environment:
\* when it has returned or thrown, nothing has been written to the console or
\* to a file, and a second call on the same environment gives the outcome of
\* the first.
C19_ResolverIsPure ==
    (caller = "server" /\ pc \in {"resolved", "resolveFailed"}) =>
        /\ console = <<>>
        /\ resolved.console = <<>>
        /\ files = <<>>
        /\ appends = <<>>
        /\ getAzureDevOpsConfig(env).error = resolved.error
        /\ getAzureDevOpsConfig(env).value = resolved.value

-----------------------------------------------------------------------------
(* AzureDevOpsService.listWorkItems (logger.ts:381-407) *)

\* A WorkItemTracking call as the remote end sees it
WitCall(method, params) == [method |-> method, query |-> params.wiqlQuery]

\* logger.ts:397-400: what listWorkItems returns for a query result
listWorkItemsResult(queryResult) ==
    [workItems |-> IF queryResult.workItems = undefined THEN <<>>
                   ELSE queryResult.workItems[1],
     count |-> IF queryResult.workItems = undefined THEN 0
               ELSE Len(queryResult.workItems[1])]

\* logger.ts:398 on a null query result
NullWorkItemsError ==
    [message |-> <<"Cannot read properties of null (reading 'workItems')">>,
     code |-> undefined, type |-> "TypeError"]

\* logger.ts:402-405
listWorkItemsErrorEntry(params, project, error) ==
    LogEntry("ERROR", "AzureDevOpsService", "Error listing work items",
             <<[wiqlQuery |-> params.wiqlQuery, project |-> project]>>, <<error>>)

\* Inputs
ListWorkItemsParams == [wiqlQuery : {"SELECT [System.Id] FROM WorkItems"}]
QueryResults ==
    {undefined}
    \cup {<<[workItems |-> w]>> :
            w \in {undefined, << <<>> >>, << <<11>> >>, << <<11, 12>> >>}}

\* The catch block of listWorkItems: logger.error, then the same Error is
\* thrown to the caller
CaughtAndLogged(i, calls, error, fsOk) ==
    LET entry == listWorkItemsErrorEntry(inv[i].params[1], svc.config[1].project, error)
        out == log([file |-> logFile, console |-> console], <<entry>>,
                   logger[1].isMcpMode, fsOk)
    IN /\ inv' = [inv EXCEPT ![i] = [@ EXCEPT !.pc = "threw", !.calls = calls,
                                               !.error = <<error>>]]
       /\ files' = IF out.file = logFile THEN files
                   ELSE Written(files, logger[1].currentLogFile, out.file)
       /\ console' = out.console
       /\ appends' = Append(appends,
                            Append_(logger[1].currentLogFile, formatLogEntry(entry), fsOk))

\* A caller invokes listWorkItems
InvokeListWorkItems(i) ==
    /\ pc = "connected" /\ svc.connection # <<>>
    /\ inv[i].pc = "idle"
    /\ \E params \in ListWorkItemsParams :
          inv' = [inv EXCEPT ![i] = [@ EXCEPT !.op = "listWorkItems",
                                                !.params = <<params>>,
                                                !.pc = "getWorkItemTrackingApi"]]
    /\ UNCHANGED startVars

\* const witApi = await this.getWorkItemTrackingApi()
GetWorkItemTrackingApi(i) ==
    /\ inv[i].pc = "getWorkItemTrackingApi"
    /\ LET calls == Append(inv[i].calls,
                           WitCall("getWorkItemTrackingApi", inv[i].params[1])) IN
       \/ /\ inv' = [inv EXCEPT ![i] = [@ EXCEPT !.pc = "queryByWiql", !.calls = calls]]
          /\ UNCHANGED <<console, files, appends>>
       \/ \E fsOk \in BOOLEAN : CaughtAndLogged(i, calls, RemoteError, fsOk)
    /\ UNCHANGED <<env, caller, pc, resolved, svc, thrown, webApiCalls,
                   allowedTools, logger, clock>>

\* const queryResult = await witApi.queryByWiql(...), and the return
QueryByWiql(i) ==
    /\ inv[i].pc = "queryByWiql"
    /\ LET calls == Append(inv[i].calls, WitCall("queryByWiql", inv[i].params[1])) IN
       \/ \E fsOk \in BOOLEAN : CaughtAndLogged(i, calls, RemoteError, fsOk)
       \/ \E queryResult \in QueryResults :
             IF queryResult = undefined
             THEN \E fsOk \in BOOLEAN : CaughtAndLogged(i, calls, NullWorkItemsError, fsOk)
             ELSE /\ inv' = [inv EXCEPT ![i] =
                        [@ EXCEPT !.pc = "returned", !.calls = calls,
                                  !.result = <<listWorkItemsResult(queryResult[1])>>]]
                  /\ UNCHANGED <<console, files, appends>>
    /\ UNCHANGED <<env, caller, pc, resolved, svc, thrown, webApiCalls,
                   allowedTools, logger, clock>>

-----------------------------------------------------------------------------
(* The life of one service instance: construction, then the methods *)

\* Configurations that a GitService is constructed from
GitConfigurations ==
    {c \in Configurations :
        /\ c.orgUrl = <<UrlAdo>>
        /\ c.collection = undefined /\ c.apiVersion = undefined
        /\ c.entraAuthHandler = undefined
        /\ c.personalAccessToken \in {<<"">>, <<"token-1">>}
        /\ \/ ~c.isOnPremises /\ c.auth = <<Auth("pat", undefined, undefined, undefined)>>
           \/ c.isOnPremises
                /\ c.auth = <<Auth("ntlm", <<"alice">>, <<"secret-1">>, undefined)>>
           \/ c.isOnPremises
                /\ c.auth = <<Auth("entra", undefined, undefined, undefined)>>}

LifecycleInit ==
    /\ env \in BareEnvironments
    /\ caller = "library"
    /\ pc = "start"
    /\ resolved = NotResolved
    /\ svc = NoService
    /\ thrown = undefined
    /\ console = <<>>
    /\ inv = [i \in Slots |-> NoInvocation]
    /\ webApiCalls = <<>>
    /\ appends = <<>>
    /\ files = <<>>
    /\ ProcInit

\* new GitService(config): super(config) (logger.ts:436-438)
NewGitService ==
    /\ pc = "start"
    /\ \E config \in GitConfigurations, sdk \in SdkOutcomes, fsOk \in BOOLEAN :
          Construct(config, sdk, fsOk)
    /\ UNCHANGED <<env, caller, resolved, inv, allowedTools, logger, clock>>

\* The methods are called one at a time, in the first slot
LifecycleNext ==
    \/ NewGitService
    \/ Invoke(1)
    \/ InvokeGetPullRequest(1)
    \/ InvokeListWorkItems(1)
    \/ GetGitApi(1)
    \/ ValidatePullRequestRepository(1)
    \/ GetPullRequestById(1)
    \/ Mutate(1)
    \/ GetPullRequest(1)
    \/ GetWorkItemTrackingApi(1)
    \/ QueryByWiql(1)

SpecLifecycle == LifecycleInit /\ [][LifecycleNext]_vars

-----------------------------------------------------------------------------
(* Properties of the life of a service instance *)

\* The instance is Connected when it holds a connection, Unconfigured otherwise
Connected == svc.connection # undefined

\* The thrown Error has been passed to logger.error
FailureLogged ==
    \E k \in DOMAIN appends :
        /\ appends[k].text.base[1] = "ERROR"
        /\ appends[k].text.error = <<thrown[1].message>>

\* C15: a service instance is Unconfigured or Connected and never goes back:
\* the construction calls new azdev.WebApi at most once, a construction that
\* fails has logged the Error and thrown it, holds no connection, is not tried
\* again and takes no method call, and a Connected instance keeps its
\* connection through every method call.
C15_TwoStatesNoWayBack ==
    [][/\ Len(webApiCalls') <= 1
       /\ Connected => svc' = svc
       /\ Connected' <=> pc' = "connected"
       /\ pc = "constructFailed" => UNCHANGED <<svc, thrown, webApiCalls, pc, inv>>
       /\ pc' = "constructFailed" =>
             /\ thrown' # undefined
             /\ ~Connected'
             /\ FailureLogged'
             /\ inv' = [i \in Slots |-> NoInvocation]
       /\ pc' = "connected" => thrown' = undefined]_vars

\* The construction has failed in new azdev.WebApi, after one call of it.
C15_Witness ==
    /\ pc = "constructFailed"
    /\ thrown = <<SdkError>>
    /\ Len(webApiCalls) = 1
    /\ FailureLogged

\* A method call has returned and another state of the same instance is
\* Connected.
C15_WitnessConnected ==
    /\ Connected
    /\ inv[1].pc = "returned"
    /\ inv[1].op = "completePullRequest"

\* The Errors that a remote call, or the use of its null result, raises
RaisedBySdk == {RemoteError, NullStatusError, NullWorkItemsError}

\* C17: within one invocation of a service method no SDK call is made twice,
\* each step makes at most one call, and an invocation in which an SDK call or
\* the pull-request validation has failed has thrown that Error as it is, has
\* no result, and makes no further call.
C17_NoRetries ==
    [][\A i \in Slots :
          /\ \A j, k \in DOMAIN inv'[i].calls :
                j # k => inv'[i].calls[j].method # inv'[i].calls[k].method
          /\ inv'[i].calls # inv[i].calls =>
                /\ Len(inv'[i].calls) = Len(inv[i].calls) + 1
                /\ SubSeq(inv'[i].calls, 1, Len(inv[i].calls)) = inv[i].calls
          /\ inv[i].pc \in {"threw", "returned"} => inv'[i] = inv[i]
          /\ inv'[i].pc = "threw" =>
                /\ inv'[i].result = undefined
                /\ inv'[i].error # undefined
                /\ \/ inv'[i].error[1] \in RaisedBySdk
                   \/ /\ inv'[i].calls[Len(inv'[i].calls)].method = "getPullRequest"
                      /\ inv'[i].op \in Operations
                      /\ inv'[i].error[1].type = "Error"
                      /\ inv'[i].error[1].message[1] = "Pull request "
          /\ inv'[i].pc = "returned" => inv'[i].error = undefined]_vars

\* completePullRequest has thrown the Error of getPullRequestById, its third
\* and last call.
C17_Witness ==
    /\ inv[1].op = "completePullRequest"
    /\ inv[1].pc = "threw"
    /\ inv[1].error = <<RemoteError>>
    /\ MethodsOf(1) = <<"getGitApi", "getPullRequest", "getPullRequestById">>

\* listWorkItems has thrown the Error of queryByWiql and logged it.
C17_WitnessListWorkItems ==
    /\ inv[1].op = "listWorkItems"
    /\ inv[1].pc = "threw"
    /\ inv[1].error = <<RemoteError>>
    /\ MethodsOf(1) = <<"getWorkItemTrackingApi", "queryByWiql">>

-----------------------------------------------------------------------------
(* The logger and the environment-loading debug log in one process *)

\* Number of Logger calls in a run
MaxLogCalls == 2
LogLevels == {"ERROR", "WARN", "INFO", "DEBUG"}

\* The entry of a Logger.error/warn/info/debug call made by invocation i
ToolEntry(i, level) ==
    LogEntry(level, "Tool", "call of invocation " \o ToString(i), undefined, undefined)

\* The number of Logger calls that the invocations have made
RECURSIVE SumCalls(_)
SumCalls(n) == IF n = 0 THEN 0 ELSE Len(inv[n].calls) + SumCalls(n - 1)
LogCalls == SumCalls(NumInvocations)

\* The text that loadEnvFile hands to writeEnvDebugLog (config.ts:16-80)
DebugInfo == <<"=== Environment Configuration Loading ===">>

LoggingInit ==
    /\ env \in BareEnvironments
    /\ caller = "server"
    /\ pc = "start"
    /\ resolved = NotResolved
    /\ svc = NoService
    /\ thrown = undefined
    /\ console = <<>>
    /\ inv = [i \in Slots |-> NoInvocation]
    /\ webApiCalls = <<>>
    /\ appends = <<>>
    /\ files = <<>>
    /\ allowedTools = undefined
    /\ logger = undefined
    /\ clock = 1

\* config.ts:84-110 and 113: loadEnvFile() at the load of config.ts ends in
\* writeEnvDebugLog(message); fs tells what the file system does: "ok",
\* "mkdirFails" (fs.mkdirSync throws) or "appendFails" (fs.appendFileSync throws)
LoadEnvFile(fs) ==
    /\ pc = "start"
    /\ pc' = "loaded"
    /\ appends' = IF fs = "mkdirFails" THEN appends
                  ELSE Append(appends, Append_(EnvDebugLogName, DebugInfo, fs = "ok"))
    /\ files' = IF fs = "ok"
                THEN Written(files, EnvDebugLogName,
                             Append(ContentOf(EnvDebugLogName), DebugInfo))
                ELSE files
    /\ console' =
          IF fs = "ok"
          THEN IF env.MCP_MODE # <<"true">>
               THEN Append(console, ConsoleLine("log", DebugInfo))
               ELSE console
          ELSE console \o <<ConsoleLine("error", <<"Failed to write env debug log:">>),
                            ConsoleLine("log", DebugInfo)>>
    /\ UNCHANGED <<env, caller, resolved, svc, thrown, inv, webApiCalls,
                   allowedTools, logger, clock>>

\* logger.ts:42-47 with 26-40 and 49-60: Logger.getInstance(); mkdirOk is
\* whether the log directory exists or can be created
GetInstance(mkdirOk) ==
    /\ IF logger # undefined
       THEN UNCHANGED <<logger, console>>
       ELSE /\ logger' = <<Logger(env, clock)>>
            /\ console' = IF mkdirOk \/ isMcpMode(env) THEN console
                          ELSE Append(console,
                                      ConsoleLine("error", <<"Failed to create log directory:">>))
    /\ UNCHANGED <<env, caller, pc, resolved, svc, thrown, inv, webApiCalls, appends,
                   allowedTools, files, clock>>

\* logger.ts:126-140 with 92-124: invocation i calls logger.error, warn, info
\* or debug; the invocations run once the modules are loaded
LogCall(i, level, fsOk) ==
    /\ logger # undefined
    /\ pc = "loaded"
    /\ LogCalls < MaxLogCalls
    /\ LET entry == ToolEntry(i, level)
           out == log([file |-> logFile, console |-> console], <<entry>>,
                      logger[1].isMcpMode, fsOk)
       IN /\ files' = IF out.file = logFile THEN files
                      ELSE Written(files, logger[1].currentLogFile, out.file)
          /\ console' = out.console
          /\ appends' = Append(appends,
                               Append_(logger[1].currentLogFile, formatLogEntry(entry), fsOk))
          /\ inv' = [inv EXCEPT ![i] = [@ EXCEPT !.calls = Append(@, entry)]]
    /\ UNCHANGED <<env, caller, pc, resolved, svc, thrown, webApiCalls,
                   allowedTools, logger, clock>>

\* The UTC date changes, once in a run
Midnight ==
    /\ clock = 1
    /\ clock' = clock + 1
    /\ UNCHANGED <<env, caller, pc, resolved, svc, thrown, console, inv, webApiCalls,
                   appends, allowedTools, logger, files>>

LoggingNext ==
    \/ \E fs \in {"ok", "mkdirFails", "appendFails"} : LoadEnvFile(fs)
    \/ \E mkdirOk \in BOOLEAN : GetInstance(mkdirOk)
    \/ \E i \in Slots, level \in LogLevels, fsOk \in BOOLEAN : LogCall(i, level, fsOk)
    \/ Midnight

SpecLogging == LoggingInit /\ [][LoggingNext]_vars

-----------------------------------------------------------------------------
(* Properties of the logger *)

\* The appends that Logger.writeToFile has attempted
LoggerAppends == {k \in DOMAIN appends : appends[k].file # EnvDebugLogName}

\* C16: with MCP_MODE = "true" nothing is written to the console by the
\* Logger calls, by the creation of the log directory, by a failing write to
\* the log file or by the environment-loading debug log, and every Logger
\* call has attempted an append to the log file.
C16_McpModeSilencesConsole ==
    env.MCP_MODE = <<"true">> =>
        /\ console = <<>>
        /\ Cardinality(LoggerAppends) = LogCalls

\* s is t or t with one element appended
GrownByAtMostOne(s, t) ==
    /\ Len(s) \in {Len(t), Len(t) + 1}
    /\ SubSeq(s, 1, Len(t)) = t

\* C20: in every step, under every interleaving of the Logger calls of
\* concurrent invocations, each file keeps the entries it has, in their order,
\* and gets at most one more at its end; a Logger call appends the whole entry
\* of its invocation to the file named when the Logger was created, or nothing
\* when the append fails, and changes no other file; the Logger and its file
\* name, once set, stay as they are, also when the date changes.
C20_AppendOnlyLogFile ==
    [][/\ \A n \in DOMAIN files :
             n \in DOMAIN files' /\ GrownByAtMostOne(files'[n], files[n])
       /\ \A n \in DOMAIN files' \ DOMAIN files : Len(files'[n]) = 1
       /\ logger # undefined => logger' = logger
       /\ (logger = undefined /\ logger' # undefined) =>
             logger'[1].currentLogFile = <<"mcp-azure-devops-", clock, ".log">>
       /\ inv' # inv =>
             \E i \in Slots, level \in LogLevels :
                LET text == [base |-> <<level, "Tool", "call of invocation " \o ToString(i)>>,
                             context |-> undefined, error |-> undefined]
                    name == logger[1].currentLogFile
                IN /\ Len(inv'[i].calls) = Len(inv[i].calls) + 1
                   /\ Len(appends') = Len(appends) + 1
                   /\ appends'[Len(appends')].file = name
                   /\ appends'[Len(appends')].text = text
                   /\ IF appends'[Len(appends')].ok
                      THEN /\ name \in DOMAIN files'
                           /\ files'[name] =
                                 Append(IF name \in DOMAIN files THEN files[name] ELSE <<>>,
                                        text)
                           /\ \A n \in DOMAIN files' \ {name} :
                                 n \in DOMAIN files /\ files'[n] = files[n]
                      ELSE files' = files]_vars

\* The log file named on day 1 holds an entry of invocation 1 followed by an
\* entry of invocation 2, written on day 2.
C20_Witness ==
    /\ clock = 2
    /\ logger # undefined
    /\ logger[1].currentLogFile = LogFileName(1)
    /\ Len(logFile) = 2
    /\ logFile[1].base[3] = "call of invocation 1"
    /\ logFile[2].base[3] = "call of invocation 2"
    /\ appends[Len(appends)].file = LogFileName(1)

-----------------------------------------------------------------------------
(* One service shared by concurrent invocations *)

\* The configuration of the process: Azure DevOps Services with a token
SharedConfigurations ==
    {c \in GitConfigurations : ~c.isOnPremises /\ c.personalAccessToken = <<"token-1">>}

\* The answers of the remote end in this specification: no pull request, pull
\* request 7 of either repository, an active pull request without merge
\* status, one work item or no query result; comments start a new thread
SharedAnswers ==
    \A i \in Slots :
        /\ inv[i].pullRequest \in
              {undefined,
               <<PullRequest(7, <<Repository(<<"repo-b">>)>>)>>,
               <<PullRequest(7, <<Repository(<<"repo-a">>)>>)>>,
               <<PullRequestWithStatus(7, <<Repository(<<"repo-a">>)>>, <<1>>, undefined)>>}
        /\ inv[i].op = "listWorkItems" /\ inv[i].result # undefined
              => inv[i].result[1].count = 1
        /\ inv[i].op = "addPullRequestComment" => inv[i].params[1].threadId = undefined

SharedInit == LifecycleInit /\ env.MCP_MODE = <<"true">>

\* new GitService(config) with the configuration of the process, at start-up
NewSharedService ==
    /\ pc = "start"
    /\ \E config \in SharedConfigurations, sdk \in SdkOutcomes :
          Construct(config, sdk, TRUE)
    /\ UNCHANGED <<env, caller, resolved, inv, allowedTools, logger, clock>>

\* A step of invocation i in a method of the service
Methods(i) ==
    \/ Invoke(i)
    \/ InvokeGetPullRequest(i)
    \/ InvokeListWorkItems(i)
    \/ GetGitApi(i)
    \/ ValidatePullRequestRepository(i)
    \/ GetPullRequestById(i)
    \/ Mutate(i)
    \/ GetPullRequest(i)
    \/ GetWorkItemTrackingApi(i)
    \/ QueryByWiql(i)

\* The invocations run on the one service in any order of their steps
SharedNext ==
    \/ NewSharedService
    \/ \E i \in Slots : Methods(i) /\ SharedAnswers'

SpecShared == SharedInit /\ [][SharedNext]_vars

-----------------------------------------------------------------------------
(* Properties of the shared service *)

\* C21: once the constructor has returned or thrown, no step of any method of
\* any invocation, returning or throwing, changes the configuration, the
\* credential handler or the connection of the service; and a construction
\* that logs a connection failure leaves the instance with the configuration
\* it was given, the organization URL that was passed to the WebApi
\* constructor included, while the masked copy is only in the log.
C21_ConfigurationImmutable ==
    [][/\ pc # "start" => svc' = svc /\ resolved' = resolved
       /\ (pc = "start" /\ pc' = "constructFailed" /\ thrown' = <<SdkError>>) =>
             /\ svc'.config \in {<<c>> : c \in SharedConfigurations}
             /\ svc'.config[1].orgUrl = webApiCalls'[1].baseUrl
             /\ \E k \in DOMAIN appends' :
                   /\ appends'[k].text.base[3] = "Connection failed"
                   /\ appends'[k].text.context[1].config.orgUrl
                         = Scheme \o <<"*", "*", "*">>
                   /\ appends'[k].text.context[1].config.orgUrl
                         # svc'.config[1].orgUrl[1]]_vars

\* listWorkItems has thrown in invocation 1 while completePullRequest of
\* invocation 2 is before its last call, and the service has the fields
\* the constructor gave it.
C21_Witness ==
    /\ inv[1].op = "listWorkItems" /\ inv[1].pc = "threw"
    /\ inv[2].op = "completePullRequest" /\ inv[2].pc = "mutate"
    /\ svc.config \in {<<c>> : c \in SharedConfigurations}
    /\ svc.connection = <<webApiCalls[1]>>
    /\ svc.authHandler = <<getPersonalAccessTokenHandler(<<"token-1">>)>>

\* The construction has logged a connection failure and thrown.
C21_WitnessConnectionFailure ==
    /\ pc = "constructFailed"
    /\ thrown = <<SdkError>>
    /\ svc.config \in {<<c>> : c \in SharedConfigurations}
    /\ \E k \in DOMAIN appends : appends[k].text.base[3] = "Connection failed"

-----------------------------------------------------------------------------
(* The resolver's decision table against the constructor's *)

\* config.ts:119-124 and 141-165: the configuration that the environment
\* describes when the decision table of getAzureDevOpsConfig throws: the
\* fields read from the environment, with the auth type and the credentials
RejectedConfiguration(e) ==
    [resolvedConfig(e) EXCEPT
        !.auth = <<Auth(authType(e), e.AZURE_DEVOPS_USERNAME, e.AZURE_DEVOPS_PASSWORD,
                        e.AZURE_DEVOPS_DOMAIN)>>]

AgreementInit == StartInit /\ caller = "server"

\* new AzureDevOpsService(config) on the configuration of an environment
\* that getAzureDevOpsConfig has rejected in its decision table
NewServiceFromRejected ==
    /\ pc = "resolveFailed"
    /\ missingVars(env) = <<>>
    /\ \E h \in {undefined} \cup {<<x>> : x \in EntraHandlers},
          sdk \in SdkOutcomes, fsOk \in BOOLEAN :
          Construct([RejectedConfiguration(env) EXCEPT !.entraAuthHandler = h], sdk, fsOk)
    /\ UNCHANGED <<env, caller, resolved, inv, allowedTools, logger, clock>>

AgreementNext == Resolve \/ NewServiceFromResolved \/ NewServiceFromRejected

SpecAgreement == AgreementInit /\ [][AgreementNext]_vars

\* The constructor has passed its authentication checks: it has returned, or
\* thrown the Error of the WebApi constructor
PassedAuthentication ==
    /\ ConstructorReturned
    /\ thrown \in {undefined, <<SdkError>>}
    /\ svc.authHandler # undefined

\* C22: a configuration returned by getAzureDevOpsConfig with auth type pat,
\* ntlm or basic passes the authentication checks of the constructor, which
\* assigns the handler of that kind; one with auth type entra passes them
\* exactly when an entraAuthHandler is attached, and the handler assigned is
\* the attached one; and the configuration of an environment that
\* getAzureDevOpsConfig rejects in its decision table is rejected by the
\* constructor before any connection is made.
C22_ResolverAndConstructorAgree ==
    ConstructorReturned =>
        IF resolved.value # undefined
        THEN LET t == resolved.value[1].auth[1].type IN
             /\ t \in {"pat", "ntlm", "basic", "entra"}
             /\ t \in {"pat", "ntlm", "basic"} =>
                   PassedAuthentication /\ svc.authHandler[1].kind = t
             /\ t = "entra" =>
                   /\ PassedAuthentication <=> svc.config[1].entraAuthHandler # undefined
                   /\ PassedAuthentication => svc.authHandler = svc.config[1].entraAuthHandler
        ELSE /\ resolved.error # undefined
             /\ ~PassedAuthentication
             /\ thrown # undefined /\ thrown[1].type = "Error"
             /\ svc.connection = undefined
             /\ webApiCalls = <<>>

\* getAzureDevOpsConfig has returned an on-premises NTLM configuration with an
\* empty token and the constructor has connected with an NTLM handler.
C22_Witness ==
    /\ pc = "connected"
    /\ resolved.value # undefined
    /\ resolved.value[1].auth[1].type = "ntlm"
    /\ resolved.value[1].personalAccessToken = <<"">>
    /\ svc.authHandler[1].kind = "ntlm"

\* getAzureDevOpsConfig has rejected NTLM for the cloud and the constructor
\* has rejected the configuration of that environment.
C22_WitnessRejected ==
    /\ pc = "constructFailed"
    /\ resolved.error = <<Error(MsgUnsupportedCloud("ntlm"))>>
    /\ thrown = <<Error(MsgCtorUnsupported("ntlm"))>>
    /\ svc.config[1].auth[1].username = <<"alice">>

\* getAzureDevOpsConfig has returned an entra configuration and the
\* constructor, with no handler attached, has thrown.
C22_WitnessEntra ==
    /\ pc = "constructFailed"
    /\ resolved.value # undefined
    /\ resolved.value[1].auth[1].type = "entra"
    /\ thrown = <<Error(MsgNoEntraHandler)>>

====
